---- MODULE Spec2Model ----
(***************************************************************************)
(* A model of craft's source and package-registry layer:                   *)
(*   - PackageRegistry (src/src/registry.rs): loading discipline, kinds,   *)
(*     overrides and the lockfile overlay;                                 *)
(*   - RegistrySource download paths (sources/registry/{mod,remote,local});*)
(*   - SourceConfigMap::load (sources/config.rs) and ReplacedSource        *)
(*     (sources/replaced.rs);                                              *)
(*   - Source::update of the path, registry and directory sources.         *)
(* Each subsystem has its own specification over its own variables; the    *)
(* variables of the other subsystems stay at their initial value.          *)
(***************************************************************************)
EXTENDS Integers, Sequences, FiniteSets, TLC

VARIABLES
    \* ---- PackageRegistry (registry.rs:64-90)
    sources,      \* SourceMap: key -> <<>> or <<source object>>
    source_ids,   \* key -> <<>> or <<[id, kind]>>
    overrides,    \* Vec<SourceId>
    locked,       \* lock map: key -> name -> Seq([id, deps])
    loadable,     \* keys for which SourceConfigMap::load returns a source
    everLocked,   \* history: keys that were recorded with kind Locked
    lastCall,     \* history: what the last registry call did
    \* ---- RegistrySource download (sources/registry)
    dl,           \* cache file, unpack directories, last download
    \* ---- SourceConfigMap::load (sources/config.rs)
    cfg,          \* the `source.*` tables and the position of one load call
    \* ---- Source::update (sources/{path,directory,registry})
    impls,        \* one source object of each implementation
    \* ---- ReplacedSource (sources/replaced.rs)
    repl,         \* the wrapper's two ids and its last call
    \* ---- Context: the unit graph (ops/craft_cc/context.rs)
    ug,           \* the packages being built and a walk along dep_targets
    \* ---- Context::target_metadata, file_stem (ops/craft_cc/context.rs)
    meta,         \* environment, package and target, and the units built of it
    \* ---- add_native_deps (ops/craft_rustc/mod.rs)
    cmd,          \* the build-script outputs and the last completed command
    \* ---- PackageSet (package.rs)
    pset,         \* the cells of the set and the downloads made
    \* ---- RemoteRegistry under --frozen (sources/registry/remote.rs)
    net,          \* configuration, cache and the HTTP requests issued
    \* ---- run_tests (ops/craft_test.rs)
    tests,        \* one test run: what was started, what failed
    \* ---- the command line front end (bin/main.rs, lib.rs)
    cli,          \* the last command's result and exit code
    \* ---- read2 (util/read2.rs)
    rd,           \* the child, its two pipes and the position of the reader
    \* ---- SourceId (source.rs)
    srcid,        \* the source ids last rendered, parsed and compared
    \* ---- PackageIdSpec (package_id_spec.rs)
    pspec,        \* the spec or string last given to Display or parse
    \* ---- craft new (ops/craft_new.rs)
    newp,         \* the options of one `craft new` and what it created
    \* ---- RegistrySource::query (sources/registry/mod.rs)
    rq,           \* one registry source: its index and the updates it made
    \* ---- LibKind (manifest.rs)
    lk            \* the crate types of a library target, written and parsed

regVars == <<sources, source_ids, overrides, locked, loadable, everLocked, lastCall>>

sourceVars == <<dl, cfg, impls, repl>>

buildVars == <<ug, meta, cmd, pset, net, tests, cli>>

utilVars == <<rd, srcid, pspec, newp, rq, lk>>

vars == <<sources, source_ids, overrides, locked, loadable, everLocked, lastCall,
          dl, cfg, impls, repl, ug, meta, cmd, pset, net, tests, cli,
          rd, srcid, pspec, newp, rq, lk>>

(***************************************************************************)
(* Value types                                                             *)
(***************************************************************************)

\* Bounds of the model.
MaxOverrides == 1
MaxLocks == 2

\* A SourceId is (kind, url) -- abstracted to `key` -- plus the precise pin.
Keys == {"s1", "s2"}
PreciseVals == {"none", "p1", "p2"}   \* "none" is Option::None
\* "s1" stands for a registry or git source, which may carry any pin;
\* "s2" for a path source, which never carries one.
SourceIds == [key : {"s1"}, precise : PreciseVals] \cup [key : {"s2"}, precise : {"none"}]
Names == {"a", "b"}
Versions == {1, 2}

Sid(k, p) == [key |-> k, precise |-> p]

\* PartialEq for SourceIdInner: kind and url decide, `precise` does not.
SidEq(x, y) == x.key = y.key

precise(sid) == sid.precise

with_precise(sid, p) == [sid EXCEPT !.precise = p]

Pkg(n, v, s) == [name |-> n, version |-> v, source |-> s]

\* derive(PartialEq) on PackageIdInner: componentwise, through SidEq.
PkgEq(x, y) == x.name = y.name /\ x.version = y.version /\ SidEq(x.source, y.source)

with_source_id(id, s) == [id EXCEPT !.source = s]

\* A version requirement is the set of versions it admits.
ReqAny == Versions
ReqExact(v) == {v}

Dep(n, r, s) == [name |-> n, req |-> r, source |-> s, only_match_name |-> FALSE]

new_override(n, s) == [name |-> n, req |-> ReqAny, source |-> s, only_match_name |-> TRUE]

matches_id(dep, id) ==
    /\ dep.name = id.name
    /\ \/ dep.only_match_name
       \/ (id.version \in dep.req /\ SidEq(dep.source, id.source))

matches(dep, summary) == matches_id(dep, summary.id)

lock_to(dep, id) == [dep EXCEPT !.req = ReqExact(id.version), !.source = id.source]

override_id(summary, id) == [summary EXCEPT !.id = id]

MapSeq(F(_), s) == [i \in 1..Len(s) |-> F(s[i])]

map_dependencies(summary, F(_)) == [summary EXCEPT !.deps = MapSeq(F, summary.deps)]

\* Index of the first element of s satisfying P, 0 when there is none
\* (Iterator::find / Iterator::position).
FindFirst(s, P(_)) ==
    LET hits == {i \in 1..Len(s) : P(s[i])}
    IN IF hits = {} THEN 0 ELSE CHOOSE i \in hits : \A j \in hits : i <= j

(***************************************************************************)
(* Sources as the registry sees them                                       *)
(***************************************************************************)

\* The packages a source lists once it has been updated: name, version and
\* dependencies; the package ids carry the id the source was created with.
Listing(k) ==
    IF k = "s1"
    THEN << [name |-> "a", version |-> 1, deps |-> <<Dep("b", ReqAny, Sid("s1", "none"))>>],
            [name |-> "a", version |-> 2, deps |-> <<Dep("b", ReqAny, Sid("s1", "none"))>>],
            [name |-> "b", version |-> 1, deps |-> <<>>] >>
    ELSE << [name |-> "a", version |-> 1, deps |-> <<>>],
            [name |-> "b", version |-> 2, deps |-> <<Dep("a", ReqAny, Sid("s1", "none"))>>] >>

SummariesOf(src) ==
    [i \in 1..Len(Listing(src.id.key)) |->
        [id |-> Pkg(Listing(src.id.key)[i].name, Listing(src.id.key)[i].version, src.id),
         deps |-> Listing(src.id.key)[i].deps]]

\* A freshly constructed source object (SourceId::load): nothing fetched yet.
NewSource(sid) == [id |-> sid, updated |-> FALSE]

\* A source the caller constructed and updated before handing it over.
ReadySource(sid) == [id |-> sid, updated |-> TRUE]

\* Source::query of a source object: the listed summaries the dependency
\* matches; a source that never completed an update lists nothing.
SourceQuery(src, dep) ==
    IF src.updated
    THEN SelectSeq(SummariesOf(src), LAMBDA s : matches(dep, s))
    ELSE <<>>

(***************************************************************************)
(* PackageRegistry (registry.rs)                                           *)
(***************************************************************************)

Kinds == {"Override", "Locked", "Normal"}

\* add_source: both maps are overwritten for the id's key.
add_source(R, id, source, kind) ==
    [R EXCEPT !.sources[id.key] = <<source>>,
              !.source_ids[id.key] = <<[id |-> id, kind |-> kind]>>]

\* load: build the source from the configuration, record it, then update it.
\* cfgOk: SourceConfigMap::load returned a source; updOk: update() succeeded.
load(R, source_id, kind, cfgOk, updOk) ==
    IF ~cfgOk
    THEN [R |-> R, ok |-> FALSE, cfgCalled |-> TRUE, updCalled |-> FALSE]
    ELSE LET R1 == IF kind = "Override"
                   THEN [R EXCEPT !.overrides = Append(@, source_id)]
                   ELSE R
             R2 == add_source(R1, source_id, NewSource(source_id), kind)
             R3 == [R2 EXCEPT !.sources[source_id.key] =
                                  <<[@[1] EXCEPT !.updated = updOk]>>]
         IN [R |-> R3, ok |-> updOk, cfgCalled |-> TRUE, updCalled |-> TRUE]

\* A variant of the early returns that never compares the pins.
AlreadyLoaded_AnyPin(R, namespace) ==
    R.source_ids[namespace.key] # <<>>

\* The early returns of ensure_loaded: load/locked, load/precise, load/match.
AlreadyLoaded(R, namespace) ==
    LET prev == R.source_ids[namespace.key]
    IN /\ prev # <<>>
       /\ \/ prev[1].kind = "Locked"
          \/ precise(prev[1].id) = "none"
          \/ precise(prev[1].id) = precise(namespace)

ensure_loaded(R, namespace, kind, cfgOk, updOk) ==
    IF AlreadyLoaded(R, namespace)
    THEN [R |-> R, ok |-> TRUE, cfgCalled |-> FALSE, updCalled |-> FALSE]
    ELSE load(R, namespace, kind, cfgOk, updOk)

\* What the history records about one ensure_loaded call.
LoadEvent(R, ever, namespace, res) ==
    [key |-> namespace.key,
     asked |-> precise(namespace),
     before |-> R.source_ids[namespace.key],
     wasLocked |-> namespace.key \in ever,
     cfgCalled |-> res.cfgCalled,
     updCalled |-> res.updCalled,
     ok |-> res.ok]

\* query_overrides: the first summary of the first override that has one.
\* Returns <<>> or <<summary>>, and the sources it asked.
query_overrides(R, dep) ==
    LET res(i) == SourceQuery(R.sources[R.overrides[i].key][1],
                              new_override(dep.name, R.overrides[i]))
        hit == FindFirst([i \in 1..Len(R.overrides) |-> i], LAMBDA i : Len(res(i)) > 0)
        asked == IF hit = 0 THEN 1..Len(R.overrides) ELSE 1..hit
    IN [found |-> IF hit = 0 THEN <<>> ELSE <<res(hit)[1]>>,
        asked |-> {R.sources[R.overrides[i].key][1] : i \in asked}]

\* The lock entries registered for a package id's source and name.
LockList(L, sid, name) == L[sid.key][name]

\* A variant of lock that consults the lock map before the summary's own
\* locked dependency list.
lock_MapFirst(L, summary) ==
    LET own == L[summary.id.source.key][summary.id.name]
        p == FindFirst(own, LAMBDA e : PkgEq(e.id, summary.id))
        pinned == IF p # 0 THEN override_id(summary, own[p].id) ELSE summary
        lockDep(dep) ==
            LET first == IF p = 0 THEN 0
                         ELSE FindFirst(own[p].deps, LAMBDA id : matches_id(dep, id))
                any == L[dep.source.key][dep.name]
                second == FindFirst(any, LAMBDA e : matches_id(dep, e.id))
            IN IF second # 0 THEN lock_to(dep, any[second].id)
               ELSE IF first # 0 THEN lock_to(dep, own[p].deps[first])
               ELSE dep
    IN map_dependencies(pinned, lockDep)

\* lock: pin the summary's id and each dependency to the lockfile.
lock(L, summary) ==
    LET own == LockList(L, summary.id.source, summary.id.name)
        p == FindFirst(own, LAMBDA e : PkgEq(e.id, summary.id))
        pinned == IF p # 0 THEN override_id(summary, own[p].id) ELSE summary
        lockDep(dep) ==
            LET first == IF p = 0 THEN 0
                         ELSE FindFirst(own[p].deps, LAMBDA id : matches_id(dep, id))
                any == LockList(L, dep.source, dep.name)
                second == FindFirst(any, LAMBDA e : matches_id(dep, e.id))
            IN IF first # 0 THEN lock_to(dep, own[p].deps[first])
               ELSE IF second # 0 THEN lock_to(dep, any[second].id)
               ELSE dep
    IN map_dependencies(pinned, lockDep)

\* Remove the element at index i (Vec::remove).
RemoveAt(s, i) == [j \in 1..(Len(s) - 1) |-> IF j < i THEN s[j] ELSE s[j + 1]]

\* The loop of warn_bad_override over the override's dependencies: "warn"
\* at the first dependency that matches no locked id left, else the ids left.
RECURSIVE OverrideDiff(_, _)
OverrideDiff(deps, real_deps) ==
    IF deps = <<>> THEN IF real_deps = <<>> THEN "same" ELSE "removed"
    ELSE LET i == FindFirst(real_deps, LAMBDA id : matches_id(Head(deps), id))
         IN IF i = 0 THEN "added" ELSE OverrideDiff(Tail(deps), RemoveAt(real_deps, i))

\* A variant in which an altered dependency list is a hard error.
warn_bad_override_Strict(L, override_summary, real_summary, shellOk) ==
    LET real == real_summary.id
        list == L[real.source.key][real.name]
        p == FindFirst(list, LAMBDA e : PkgEq(real, e.id))
        diff == OverrideDiff(override_summary.deps, list[p].deps)
    IN IF p = 0 THEN [ok |-> FALSE, warned |-> FALSE, diff |-> "nolock"]
       ELSE [ok |-> diff = "same", warned |-> FALSE, diff |-> diff]

\* warn_bad_override: "err" when the real package has no lock entry or the
\* warning cannot be written, else whether a warning was printed.
warn_bad_override(L, override_summary, real_summary, shellOk) ==
    LET real == real_summary.id
        list == LockList(L, real.source, real.name)
        p == FindFirst(list, LAMBDA e : PkgEq(real, e.id))
        diff == OverrideDiff(override_summary.deps, list[p].deps)
    IN IF p = 0 THEN [ok |-> FALSE, warned |-> FALSE, diff |-> "nolock"]
       ELSE IF diff = "same" THEN [ok |-> TRUE, warned |-> FALSE, diff |-> diff]
       ELSE [ok |-> shellOk, warned |-> shellOk, diff |-> diff]

\* Registry::query for PackageRegistry, after ensure_loaded succeeded.
QueryLoaded(R, L, dep, shellOk) ==
    LET ov == query_overrides(R, dep)
        realSrc == R.sources[dep.source.key]
        real == IF realSrc = <<>> THEN <<>> ELSE SourceQuery(realSrc[1], dep)
        asked == ov.asked \cup (IF realSrc = <<>> THEN {} ELSE {realSrc[1]})
        w == warn_bad_override(L, ov.found[1], real[1], shellOk)
        none == [ok |-> FALSE, ret |-> <<>>, warned |-> FALSE, asked |-> asked,
                 ov |-> ov.found, real |-> real, diff |-> "none", shellOk |-> shellOk]
    IN IF ov.found # <<>> /\ realSrc # <<>>
       THEN IF Len(real) # 1 THEN none
            ELSE IF ~w.ok THEN [none EXCEPT !.diff = w.diff]
            ELSE [none EXCEPT !.ok = TRUE, !.ret = <<lock(L, ov.found[1])>>,
                              !.warned = w.warned, !.diff = w.diff]
       ELSE IF ov.found # <<>> THEN none
       ELSE [none EXCEPT !.ok = TRUE,
                         !.ret = [i \in 1..Len(real) |-> lock(L, real[i])]]

\* The registry's fields as one record, for the operators above.
Reg == [sources |-> sources, source_ids |-> source_ids, overrides |-> overrides]

LockedKeys(R) == {k \in Keys : R.source_ids[k] # <<>> /\ R.source_ids[k][1].kind = "Locked"}

NoQuery == [ok |-> FALSE, ret |-> <<>>, warned |-> FALSE, asked |-> {},
            ov |-> <<>>, real |-> <<>>, diff |-> "none", shellOk |-> TRUE]

Call(op, arg, events, ok, q) ==
    [op |-> op, arg |-> arg, events |-> events, ok |-> ok, q |-> q]

SetReg(R) ==
    /\ sources' = R.sources
    /\ source_ids' = R.source_ids
    /\ overrides' = R.overrides
    /\ everLocked' = everLocked \cup LockedKeys(R)

\* add_sources: ensure_loaded(id, Locked) for each id, stopping at the
\* first error. upd[i] is the outcome of the update() of the i-th id.
RECURSIVE add_sources(_, _, _, _)
add_sources(R, ever, ids, upd) ==
    IF ids = <<>> THEN [R |-> R, ok |-> TRUE, events |-> <<>>]
    ELSE LET res == ensure_loaded(R, Head(ids), "Locked",
                                  Head(ids).key \in loadable, Head(upd))
             ev == LoadEvent(R, ever, Head(ids), res)
             rest == add_sources(res.R, ever \cup LockedKeys(res.R), Tail(ids), Tail(upd))
         IN IF ~res.ok THEN [R |-> res.R, ok |-> FALSE, events |-> <<ev>>]
            ELSE [R |-> rest.R, ok |-> rest.ok, events |-> <<ev>> \o rest.events]

\* The download directories before anything was fetched or unpacked.
NoDir == [dir |-> FALSE, craft_ok |-> FALSE, unpacked |-> <<>>]

InitDownload ==
    dl = [cache |-> <<>>, remote |-> NoDir, local |-> NoDir,
          last |-> [op |-> "none", checksum |-> 0, tarball |-> <<>>, file |-> <<>>,
                    path |-> "none", ok |-> TRUE, before |-> NoDir, after |-> NoDir]]

ConfigNames == {"a", "b", "c"}

InitConfig ==
    cfg = [cfgs |-> [n \in ConfigNames |-> <<>>], id |-> [key |-> "s1", precise |-> "none"],
           pc |-> "idle", name |-> "", orig_name |-> "", result |-> "none",
           replaced |-> <<>>, turn |-> FALSE]

SourceImpls == {"path", "directory", "registry", "registry_locked"}

InitUpdate ==
    impls = [k \in SourceImpls |->
              [updated |-> FALSE, packages |-> {}, okUpdates |-> 0, refreshes |-> 0,
               first |-> {}]]

InitReplaced ==
    repl = [to_replace |-> [key |-> "s1", precise |-> "none"],
            replace_with |-> [key |-> "s2", precise |-> "none"],
            last |-> [op |-> "new", arg |-> <<>>, sent |-> <<>>, inner |-> <<>>,
                      ret |-> <<>>, ok |-> TRUE]]

\* Nothing configured, nothing built, nothing run.
InitUnits ==
    ug = [w |-> <<>>, mark |-> <<>>, from |-> <<>>, cur |-> <<>>, moved |-> FALSE]

InitMetadata == meta = [ctx |-> <<>>, built |-> [test \in BOOLEAN |-> <<>>]]

InitCommand == cmd = [w |-> <<>>, last |-> <<>>]

\* No PackageSet yet.
InitPackageSet ==
    pset = [made |-> FALSE, sources |-> {}, cells |-> [id \in {"a", "b"} |-> <<>>],
            downloads |-> [id \in {"a", "b"} |-> 0], fills |-> [id \in {"a", "b"} |-> 0],
            gets |-> 0, last |-> <<>>]

\* Before Config::configure.
InitNetwork ==
    net = [configured |-> FALSE, frozen |-> FALSE, handle |-> FALSE,
           cache |-> [pkg \in {"a", "b"} |-> "none"], requests |-> 0, fetched |-> FALSE,
           last |-> <<>>]

InitTests == tests = [last |-> <<>>]

\* The process has started and nothing was parsed yet.
InitCli ==
    cli = [stage |-> "start", command |-> "none", verbose |-> FALSE, origin |-> "none",
           child |-> <<>>, err |-> <<>>, shown |-> "none", exit |-> <<>>]

\* No child yet: both pipes empty and open, the reader before its loop.
InitRead2 ==
    rd = [started |-> FALSE, prog |-> <<>>, next |-> 1,
          closed |-> FALSE,
          pipe |-> [out |-> 0, err |-> 0],
          got |-> [out |-> 0, err |-> 0],
          out_done |-> FALSE, err_done |-> FALSE,
          pc |-> "select"]

InitSourceId == srcid = [last |-> <<>>]

InitPackageIdSpec == pspec = [last |-> <<>>]

InitNew == newp = [last |-> <<>>]

InitRegistryQuery ==
    rq = [updated |-> FALSE, index |-> {}, remote |-> {}, queries |-> 0,
          lazy |-> 0, last |-> <<>>]

InitLibKind == lk = [last |-> <<>>]

InitReg ==
    /\ InitRead2 /\ InitSourceId /\ InitPackageIdSpec /\ InitNew /\ InitRegistryQuery
    /\ InitLibKind
    /\ InitDownload /\ InitConfig /\ InitUpdate /\ InitReplaced
    /\ InitUnits /\ InitMetadata
    /\ InitCommand /\ InitPackageSet /\ InitNetwork /\ InitTests /\ InitCli
    /\ sources = [k \in Keys |-> <<>>]
    /\ source_ids = [k \in Keys |-> <<>>]
    /\ overrides = <<>>
    /\ locked = [k \in Keys |-> [n \in Names |-> <<>>]]
    /\ everLocked = {}
    /\ lastCall = Call("new", <<>>, <<>>, TRUE, NoQuery)

AddSources(ids, upd) ==
    LET res == add_sources(Reg, everLocked, ids, upd)
    IN /\ SetReg(res.R)
       /\ lastCall' = Call("add_sources", ids, res.events, res.ok, NoQuery)
       /\ UNCHANGED <<locked, loadable, dl, cfg, impls, repl, buildVars, utilVars>>

AddPreloaded(id) ==
    /\ SetReg(add_source(Reg, id, ReadySource(id), "Locked"))
    /\ lastCall' = Call("add_preloaded", <<id>>, <<>>, TRUE, NoQuery)
    /\ UNCHANGED <<locked, loadable, dl, cfg, impls, repl, buildVars, utilVars>>

AddOverride(id) ==
    /\ Len(overrides) < MaxOverrides
    /\ SetReg([add_source(Reg, id, ReadySource(id), "Override")
                  EXCEPT !.overrides = Append(@, id)])
    /\ lastCall' = Call("add_override", <<id>>, <<>>, TRUE, NoQuery)
    /\ UNCHANGED <<locked, loadable, dl, cfg, impls, repl, buildVars, utilVars>>

NumLocks == Len(locked["s1"]["a"]) + Len(locked["s1"]["b"])
            + Len(locked["s2"]["a"]) + Len(locked["s2"]["b"])

RegisterLock(id, deps) ==
    /\ NumLocks < MaxLocks
    /\ locked' = [locked EXCEPT ![id.source.key][id.name] =
                                   Append(@, [id |-> id, deps |-> deps])]
    /\ lastCall' = Call("register_lock", <<id>>, <<>>, TRUE, NoQuery)
    /\ UNCHANGED <<sources, source_ids, overrides, loadable, everLocked, dl, cfg, impls, repl, buildVars, utilVars>>

Lock(summary) ==
    /\ lastCall' = Call("lock", <<summary>>, <<>>, TRUE,
                        [NoQuery EXCEPT !.ok = TRUE, !.ret = <<lock(locked, summary)>>])
    /\ UNCHANGED <<sources, source_ids, overrides, locked, loadable, everLocked,
                   dl, cfg, impls, repl, buildVars, utilVars>>

Query(dep, updOk, shellOk) ==
    LET res == ensure_loaded(Reg, dep.source, "Normal", dep.source.key \in loadable, updOk)
        ev == LoadEvent(Reg, everLocked, dep.source, res)
        q == IF res.ok THEN QueryLoaded(res.R, locked, dep, shellOk) ELSE NoQuery
    IN /\ SetReg(res.R)
       /\ lastCall' = Call("query", <<dep>>, <<ev>>, q.ok, q)
       /\ UNCHANGED <<locked, loadable, dl, cfg, impls, repl, buildVars, utilVars>>

(***************************************************************************)
(* Specification of the loading discipline: any sequence of add_sources,   *)
(* add_preloaded, add_override and query calls, with any configuration     *)
(* outcome per source and any outcome of each update().                    *)
(***************************************************************************)

\* The id lists add_sources is called with: one id, or one id per source.
SourceLists ==
    {<<x>> : x \in SourceIds}
    \cup {<<x, y>> : x \in {s \in SourceIds : s.key = "s1"},
                     y \in {s \in SourceIds : s.key = "s2"}}

RegDeps == {Dep("a", ReqAny, id) : id \in SourceIds}

InitRegistry ==
    /\ InitReg
    /\ loadable \in {Keys, {"s1"}}

NextRegistry ==
    \/ \E ids \in SourceLists : \E upd \in [1..Len(ids) -> BOOLEAN] :
          AddSources(ids, upd)
    \/ \E id \in SourceIds : AddPreloaded(id)
    \/ \E id \in SourceIds : AddOverride(id)
    \/ \E dep \in RegDeps : \E updOk \in BOOLEAN : Query(dep, updOk, TRUE)

SpecRegistry == InitRegistry /\ [][NextRegistry]_vars

(***************************************************************************)
(* Specification of overrides: sources handed over or loaded, lock entries *)
(* registered from a lockfile, and queries; every update() succeeds.       *)
(***************************************************************************)

Unpinned == {s \in SourceIds : precise(s) = "none"}

\* The entries of the previous lockfile register_lock is called with.
LockEntries ==
    LET r1 == Sid("s1", "p1")
        r2 == Sid("s1", "p2")
    IN { [id |-> Pkg("a", 1, r1), deps |-> <<Pkg("b", 1, r1)>>],
         [id |-> Pkg("a", 1, r1), deps |-> <<>>],
         [id |-> Pkg("b", 1, r1), deps |-> <<>>],
         [id |-> Pkg("b", 2, r2), deps |-> <<>>],
         [id |-> Pkg("b", 1, r1), deps |-> <<Pkg("a", 2, r1)>>] }

OverrideDeps == {Dep(n, r, s) : n \in Names, r \in {ReqAny, ReqExact(1)}, s \in Unpinned}

InitOverride ==
    /\ InitReg
    /\ loadable = Keys

NextOverride ==
    \/ \E id \in Unpinned : AddPreloaded(id)
    \/ \E id \in Unpinned : AddOverride(id)
    \/ \E e \in LockEntries : RegisterLock(e.id, e.deps)
    \/ \E dep \in OverrideDeps : \E shellOk \in BOOLEAN : Query(dep, TRUE, shellOk)

SpecOverride == InitOverride /\ [][NextOverride]_vars

(***************************************************************************)
(* Specification of the lockfile overlay: lock entries are registered and  *)
(* lock is applied to summaries.                                           *)
(***************************************************************************)

LockDeps ==
    { Dep("b", ReqAny, Sid("s1", "none")), Dep("b", ReqExact(2), Sid("s1", "none")),
      Dep("b", ReqAny, Sid("s2", "none")), Dep("a", ReqAny, Sid("s1", "none")) }

LockSummaries ==
    {[id |-> Pkg(n, v, Sid("s1", "none")), deps |-> ds] :
        n \in Names, v \in Versions,
        ds \in {<<>>} \cup {<<x>> : x \in LockDeps} \cup {<<x, y>> : x \in LockDeps, y \in LockDeps}}

NextLock ==
    \/ \E e \in LockEntries : RegisterLock(e.id, e.deps)
    \/ \E s \in LockSummaries : Lock(s)

SpecLock == InitOverride /\ [][NextLock]_vars

Events == {lastCall.events[i] : i \in 1..Len(lastCall.events)}

\* C2 (as claimed): a first query of a source calls load, and update() once the
\* source is constructed; a later query of a source that is not Locked calls
\* load again exactly when the queried pin differs from the recorded pin.
C2_Claimed ==
    lastCall.op = "query" =>
        \A e \in Events :
            /\ e.before = <<>> => (e.cfgCalled /\ (e.key \in loadable => e.updCalled))
            /\ (e.before # <<>> /\ e.before[1].kind # "Locked") =>
                   (e.cfgCalled <=> precise(e.before[1].id) # e.asked)

\* C2 (amended): a first query of a source calls load, and update() exactly
\* when the configuration yields a source; a later query of a source that is
\* not Locked calls load again exactly when the recorded id carries a pin and
\* that pin differs from the queried one. A recorded id without a pin is
\* never loaded again, whatever pin is queried.
C2_Reload ==
    lastCall.op = "query" =>
        \A e \in Events :
            /\ e.updCalled => e.cfgCalled
            /\ e.before = <<>> => (e.cfgCalled /\ (e.updCalled <=> e.key \in loadable))
            /\ (e.before # <<>> /\ e.before[1].kind # "Locked") =>
                   /\ e.cfgCalled <=> (precise(e.before[1].id) # "none"
                                         /\ precise(e.before[1].id) # e.asked)
                   /\ e.cfgCalled => (e.updCalled <=> e.key \in loadable)

\* A later query with another pin reloaded and updated a pinned Normal source.
C2_Witness ==
    /\ lastCall.op = "query"
    /\ \E e \in Events :
          /\ e.before # <<>> /\ e.before[1].kind = "Normal"
          /\ precise(e.before[1].id) = "p1" /\ e.asked = "p2"
          /\ e.cfgCalled /\ e.updCalled

\* C3: a source that was once recorded as Locked is never loaded or updated
\* again by a later registry call.
C3_LockedNeverReloaded ==
    \A e \in Events : e.wasLocked => (~e.cfgCalled /\ ~e.updCalled)

\* C4: every source object a query is forwarded to has completed an update.
C4_QueriedAfterUpdate ==
    lastCall.op = "query" => \A s \in lastCall.q.asked : s.updated

\* C5: the kind recorded for a source never changes.
C5_KindFixed ==
    [][\A k \in Keys :
          source_ids[k] # <<>> =>
              (source_ids'[k] # <<>> /\ source_ids'[k][1].kind = source_ids[k][1].kind)]_vars

HasLock(id) ==
    \E i \in 1..Len(LockList(locked, id.source, id.name)) :
        PkgEq(LockList(locked, id.source, id.name)[i].id, id)

\* C6 (as claimed): whenever an override yields a summary, query succeeds and
\* returns it, whatever the lock map and the real source's result list are.
C6_Claimed ==
    (lastCall.op = "query" /\ lastCall.q.ov # <<>>) =>
        /\ lastCall.ok
        /\ Len(lastCall.q.ret) = 1
        /\ PkgEq(lastCall.q.ret[1].id, lastCall.q.ov[1].id)

\* C6 (amended): when an override yields a summary, query succeeds exactly
\* when the real source returned one summary, that package has a lock entry
\* and, if the dependency lists differ, the warning could be written; it then
\* returns the override summary alone. A difference of the dependency lists
\* by itself only prints a warning.
C6_Override ==
    (lastCall.op = "query" /\ lastCall.q.ov # <<>>) =>
        LET q == lastCall.q
        IN /\ lastCall.ok <=> /\ Len(q.real) = 1
                              /\ HasLock(q.real[1].id)
                              /\ (q.diff = "same" \/ q.shellOk)
           /\ lastCall.ok => /\ Len(q.ret) = 1
                             /\ PkgEq(q.ret[1].id, q.ov[1].id)
                             /\ Len(q.ret[1].deps) = Len(q.ov[1].deps)
           /\ q.warned <=> (lastCall.ok /\ q.diff \in {"added", "removed"})

\* A query answered by an override whose dependency list differs from the
\* locked one: it succeeded with a warning.
C6_Witness ==
    /\ lastCall.op = "query" /\ lastCall.ok
    /\ lastCall.q.ov # <<>> /\ lastCall.q.warned
    /\ lastCall.q.diff = "removed"

\* The ids a dependency may be pinned to: (i) those of the locked dependency
\* list of the summary's own lock entry, (ii) those of the lock entries
\* registered for the dependency's source and name.
OwnEntries(s) ==
    SelectSeq(LockList(locked, s.id.source, s.id.name), LAMBDA e : PkgEq(e.id, s.id))

OwnHits(s, d) ==
    IF OwnEntries(s) = <<>> THEN {}
    ELSE {OwnEntries(s)[1].deps[j] : j \in {j \in 1..Len(OwnEntries(s)[1].deps) :
                                                matches_id(d, OwnEntries(s)[1].deps[j])}}

MapHits(d) ==
    {LockList(locked, d.source, d.name)[j].id :
        j \in {j \in 1..Len(LockList(locked, d.source, d.name)) :
                   matches_id(d, LockList(locked, d.source, d.name)[j].id)}}

\* What being pinned to id means: the exact version, from id's source.
PinnedTo(r, d, id) ==
    /\ r.name = d.name
    /\ r.req = {id.version}
    /\ r.source = id.source

\* C7: lock pins each dependency to a matching id of (i) when there is one,
\* else to a matching id of (ii) when there is one, and returns it unchanged
\* otherwise.
C7_Lock ==
    lastCall.op = "lock" =>
        LET s == lastCall.arg[1]
            r == lastCall.q.ret[1]
        IN /\ Len(r.deps) = Len(s.deps)
           /\ \A i \in 1..Len(s.deps) :
                 LET d == s.deps[i]
                 IN /\ OwnHits(s, d) # {} => \E id \in OwnHits(s, d) : PinnedTo(r.deps[i], d, id)
                    /\ (OwnHits(s, d) = {} /\ MapHits(d) # {}) =>
                           \E id \in MapHits(d) : PinnedTo(r.deps[i], d, id)
                    /\ (OwnHits(s, d) = {} /\ MapHits(d) = {}) => r.deps[i] = d

\* lock was applied to a summary one of whose dependencies matches an id of
\* (i) and another id of (ii), and was pinned to the one of (i).
C7_Witness ==
    /\ lastCall.op = "lock"
    /\ \E i \in 1..Len(lastCall.arg[1].deps) :
          LET d == lastCall.arg[1].deps[i]
          IN /\ OwnHits(lastCall.arg[1], d) # {}
             /\ MapHits(d) \ OwnHits(lastCall.arg[1], d) # {}
             /\ \E id \in OwnHits(lastCall.arg[1], d) : PinnedTo(lastCall.q.ret[1].deps[i], d, id)
             /\ \A id \in MapHits(d) \ OwnHits(lastCall.arg[1], d) :
                   ~PinnedTo(lastCall.q.ret[1].deps[i], d, id)

(***************************************************************************)
(* RegistrySource::download (sources/registry/mod.rs:342-363) over the     *)
(* remote back end (remote.rs:108-163) and the local one (local.rs:56-88)  *)
(***************************************************************************)

\* A tarball is the sequence of its entries.  GoodTarball is the archive that
\* was published and whose digest the index declares; Tarballs are the
\* complete archives a server or a local registry directory may hold.
GoodTarball == <<1, 2>>
Tarballs == {<<1, 2>>, <<2, 1>>}

\* File contents: the complete archives and their proper prefixes.
Contents == Tarballs \cup {<<>>, <<1>>, <<2>>}

\* The digest: an injective code of the content (base 3 with a leading 1).
RECURSIVE Sha256(_)
Sha256(c) ==
    IF c = <<>> THEN 1 ELSE 3 * Sha256(SubSeq(c, 1, Len(c) - 1)) + c[Len(c)]

\* self.index.hash(package): the checksum the index declares.
IndexHash == Sha256(GoodTarball)

\* RemoteRegistry::download.  `cache` is the content of the cache file
\* <name>-<version>.crate, `body` what the server sends, `written` how many
\* entries write_all puts on disk before it returns (all of them, or fewer
\* and an error).
RemoteRegistry_download(cache, checksum, body, written) ==
    IF Len(cache) > 0
    THEN [ok |-> TRUE, file |-> <<cache>>, cache |-> cache,
          tarball |-> cache, path |-> "cached"]
    ELSE IF Sha256(body) # checksum
    THEN [ok |-> FALSE, file |-> <<>>, cache |-> cache,
          tarball |-> body, path |-> "fresh"]
    ELSE IF written < Len(body)
    THEN [ok |-> FALSE, file |-> <<>>, cache |-> SubSeq(body, 1, written),
          tarball |-> body, path |-> "fresh"]
    ELSE [ok |-> TRUE, file |-> <<body>>, cache |-> body,
          tarball |-> body, path |-> "fresh"]

\* LocalRegistry::download.  `chest` is the content of the chest file in the
\* local registry directory, `exists` whether the unpacked directory exists.
LocalRegistry_download(chest, exists, checksum) ==
    IF exists
    THEN [ok |-> TRUE, file |-> <<chest>>, tarball |-> chest, path |-> "unpacked"]
    ELSE IF Sha256(chest) # checksum
    THEN [ok |-> FALSE, file |-> <<>>, tarball |-> chest, path |-> "fresh"]
    ELSE [ok |-> TRUE, file |-> <<chest>>, tarball |-> chest, path |-> "fresh"]

\* RegistrySource::unpack_package.  The directory is created first; with
\* `.craft-ok` present nothing is unpacked.  Otherwise the entries are
\* extracted in order: `extracted` entries reach the disk before an I/O error,
\* and a truncated archive ends with an error after its last entry.
unpack_package(D, tarball, extracted) ==
    IF D.craft_ok THEN [ok |-> TRUE, D |-> [D EXCEPT !.dir = TRUE]]
    ELSE IF tarball \in Tarballs /\ extracted >= Len(tarball)
    THEN [ok |-> TRUE, D |-> [dir |-> TRUE, craft_ok |-> TRUE, unpacked |-> tarball]]
    ELSE LET n == IF extracted < Len(tarball) THEN extracted ELSE Len(tarball)
         IN [ok |-> FALSE,
             D |-> [dir |-> TRUE, craft_ok |-> FALSE,
                    unpacked |-> IF n = 0 THEN D.unpacked ELSE SubSeq(tarball, 1, n)]]

\* One download: what the back end returned, then the unpacking.
DownloadRecord(op, got, un, before) ==
    [op |-> op, checksum |-> IndexHash, tarball |-> got.tarball, file |-> got.file,
     path |-> got.path, ok |-> un.ok, before |-> before, after |-> un.D]

\* RegistrySource::download of a remote registry.
RemoteDownload(body, written, extracted) ==
    LET got == RemoteRegistry_download(dl.cache, IndexHash, body, written)
        un == IF got.ok THEN unpack_package(dl.remote, got.file[1], extracted)
              ELSE [ok |-> FALSE, D |-> dl.remote]
    IN /\ dl' = [dl EXCEPT !.cache = got.cache, !.remote = un.D,
                           !.last = DownloadRecord("remote", got, un, dl.remote)]
       /\ UNCHANGED <<regVars, cfg, impls, repl, buildVars, utilVars>>

\* RegistrySource::download of a local registry.
LocalDownload(chest, extracted) ==
    LET got == LocalRegistry_download(chest, dl.local.dir, IndexHash)
        un == IF got.ok THEN unpack_package(dl.local, got.file[1], extracted)
              ELSE [ok |-> FALSE, D |-> dl.local]
    IN /\ dl' = [dl EXCEPT !.local = un.D,
                           !.last = DownloadRecord("local", got, un, dl.local)]
       /\ UNCHANGED <<regVars, cfg, impls, repl, buildVars, utilVars>>

NextDownload ==
    \/ \E body \in Contents : \E written \in 0..Len(body) :
          \E extracted \in 0..Len(GoodTarball) : RemoteDownload(body, written, extracted)
    \/ \E chest \in Contents : \E extracted \in 0..Len(GoodTarball) :
          LocalDownload(chest, extracted)

SpecDownload == InitOverride /\ [][NextDownload]_vars

\* C1: on every path through download the tarball handed on for unpacking
\* has the digest the index declares, and a tarball with another digest makes
\* download fail with nothing unpacked.
C1_Checksum ==
    dl.last.op # "none" =>
        /\ dl.last.file # <<>> => Sha256(dl.last.file[1]) = dl.last.checksum
        /\ Sha256(dl.last.tarball) # dl.last.checksum =>
              (~dl.last.ok /\ dl.last.after.unpacked = dl.last.before.unpacked)

(***************************************************************************)
(* SourceConfigMap::load (sources/config.rs:65-127)                        *)
(***************************************************************************)

\* The id each configured `source.<name>` table stands for: "a" and "b" are
\* registries, "c" is a path source.
ConfigId(n) ==
    IF n = "a" THEN Sid("s1", "none")
    ELSE IF n = "b" THEN Sid("s2", "none") ELSE Sid("s3", "none")

\* replace-with of a table: none, a configured name, or the name "d" that no
\* table defines.
ReplaceWith == {<<>>, <<"a">>, <<"b">>, <<"c">>, <<"d">>}
Configs == [ConfigNames -> ReplaceWith]

\* The ids load is called with; "s4" has no table.
LoadIds == {Sid("s1", "none"), Sid("s1", "p1"), Sid("s2", "none"),
            Sid("s3", "none"), Sid("s4", "none")}

\* self.id2name.get(id)
id2name(id) ==
    IF \E n \in ConfigNames : SidEq(ConfigId(n), id)
    THEN <<CHOOSE n \in ConfigNames : SidEq(ConfigId(n), id)>>
    ELSE <<>>

\* id.load(config).supports_checksums(): true for the registry sources.
supports_checksums(sid) == sid.key \in {"s1", "s2"}

Returned(c, result) == [c EXCEPT !.pc = "done", !.result = result]

\* The loop of load with the comparison of supports_checksums left out.
LoopBody_Unchecked(c) ==
    IF c.name \notin ConfigNames THEN Returned(c, "not_found")
    ELSE IF c.cfgs[c.name] # <<>>
    THEN IF c.cfgs[c.name][1] = c.orig_name
         THEN Returned([c EXCEPT !.name = c.cfgs[c.name][1]], "cycle")
         ELSE [c EXCEPT !.name = c.cfgs[c.name][1], !.turn = ~c.turn]
    ELSE IF SidEq(c.id, ConfigId(c.name)) THEN Returned(c, "plain")
    ELSE [Returned(c, "replaced") EXCEPT
             !.replaced = <<[to_replace |-> c.id,
                             replace_with |-> with_precise(ConfigId(c.name), precise(c.id))]>>]

\* One iteration of the loop of load, and the code after the loop when the
\* iteration breaks out of it.  `turn` flips whenever the loop goes round, so
\* that two consecutive iterations are two states.
LoopBody(c) ==
    IF c.name \notin ConfigNames THEN Returned(c, "not_found")
    ELSE IF c.cfgs[c.name] # <<>>
    THEN IF c.cfgs[c.name][1] = c.orig_name
         THEN Returned([c EXCEPT !.name = c.cfgs[c.name][1]], "cycle")
         ELSE [c EXCEPT !.name = c.cfgs[c.name][1], !.turn = ~c.turn]
    ELSE IF SidEq(c.id, ConfigId(c.name)) THEN Returned(c, "plain")
    ELSE LET new_id == with_precise(ConfigId(c.name), precise(c.id))
         IN IF supports_checksums(new_id) # supports_checksums(c.id)
            THEN Returned(c, "checksum_mismatch")
            ELSE [Returned(c, "replaced") EXCEPT
                     !.replaced = <<[to_replace |-> c.id, replace_with |-> new_id]>>]

\* The call of load up to the loop.
LoadStart(cfgs, id) ==
    /\ cfg.pc # "loop"
    /\ cfg' = IF id2name(id) = <<>>
              THEN [cfgs |-> cfgs, id |-> id, pc |-> "done", name |-> "",
                    orig_name |-> "", result |-> "plain", replaced |-> <<>>,
                    turn |-> FALSE]
              ELSE [cfgs |-> cfgs, id |-> id, pc |-> "loop", name |-> id2name(id)[1],
                    orig_name |-> id2name(id)[1], result |-> "none", replaced |-> <<>>,
                    turn |-> FALSE]
    /\ UNCHANGED <<regVars, dl, impls, repl, buildVars, utilVars>>

LoadStep ==
    /\ cfg.pc = "loop"
    /\ cfg' = LoopBody(cfg)
    /\ UNCHANGED <<regVars, dl, impls, repl, buildVars, utilVars>>

NextConfig ==
    \/ \E cfgs \in Configs : \E id \in LoadIds : LoadStart(cfgs, id)
    \/ LoadStep

\* The loop of load runs without waiting for anything: an enabled iteration
\* is eventually taken.
SpecConfig == InitOverride /\ [][NextConfig]_vars /\ WF_vars(LoadStep)

\* Where the replace-with pointers lead from `name`: to a table without
\* replace-with ("end"), to a name no table defines ("missing"), or neither
\* within as many steps as there are tables ("cyclic").
RECURSIVE ChainEnd(_, _, _)
ChainEnd(cfgs, name, fuel) ==
    IF name \notin ConfigNames THEN "missing"
    ELSE IF cfgs[name] = <<>> THEN "end"
    ELSE IF fuel = 0 THEN "cyclic"
    ELSE ChainEnd(cfgs, cfgs[name][1], fuel - 1)

Cyclic == ChainEnd(cfg.cfgs, cfg.orig_name, Cardinality(ConfigNames)) = "cyclic"

\* C8: with a cyclic replace-with chain, load terminates and returns the
\* cyclic-replacement error.
C8_CycleError ==
    (cfg.pc = "loop" /\ Cyclic) ~> (cfg.pc = "done" /\ cfg.result = "cycle")

\* The table the replace-with pointers end at, starting from `name`: <<n>>
\* when they reach a table n without replace-with, <<>> otherwise.
RECURSIVE FinalName(_, _, _)
FinalName(cfgs, name, fuel) ==
    IF name \notin ConfigNames THEN <<>>
    ELSE IF cfgs[name] = <<>> THEN <<name>>
    ELSE IF fuel = 0 THEN <<>>
    ELSE FinalName(cfgs, cfgs[name][1], fuel - 1)

FinalSource == FinalName(cfg.cfgs, cfg.orig_name, Cardinality(ConfigNames))

\* C11: load fails, and builds no ReplacedSource, whenever the requested
\* source and the source that finally replaces it differ in
\* supports_checksums(); a ReplacedSource is built only when the two agree.
C11_ChecksumSupport ==
    cfg.pc = "done" =>
        /\ (/\ FinalSource # <<>>
            /\ ~SidEq(ConfigId(FinalSource[1]), cfg.id)
            /\ supports_checksums(ConfigId(FinalSource[1])) # supports_checksums(cfg.id))
              => (cfg.result = "checksum_mismatch" /\ cfg.replaced = <<>>)
        /\ cfg.replaced # <<>> =>
              /\ cfg.result = "replaced"
              /\ supports_checksums(cfg.replaced[1].replace_with)
                    = supports_checksums(cfg.replaced[1].to_replace)
        /\ cfg.result = "replaced" => cfg.replaced # <<>>

C11_Witness ==
    /\ cfg.pc = "done"
    /\ cfg.result = "checksum_mismatch"
    /\ FinalSource # <<>>
    /\ supports_checksums(ConfigId(FinalSource[1])) # supports_checksums(cfg.id)

(***************************************************************************)
(* Source::update of PathSource (path.rs:311-319), DirectorySource         *)
(* (directory.rs:65-102) and RegistrySource (registry/mod.rs:299-304,      *)
(* 328-340)                                                                *)
(***************************************************************************)

MaxUpdates == 2

\* Package lists that the directory on disk, or the remote index, holds at
\* the time of a call.
PackageLists == {{1}, {1, 2}}

\* Each update takes the source object, what is there to read, and whether
\* the read or fetch succeeds; it returns the object, the result, and whether
\* the package list was read or fetched again.
PathSource_update(S, disk, ok) ==
    IF ~S.updated
    THEN IF ok
         THEN [S |-> [S EXCEPT !.packages = S.packages \cup disk, !.updated = TRUE],
               ok |-> TRUE, refreshed |-> TRUE]
         ELSE [S |-> S, ok |-> FALSE, refreshed |-> FALSE]
    ELSE [S |-> S, ok |-> TRUE, refreshed |-> FALSE]

DirectorySource_update(S, disk, ok) ==
    IF ok
    THEN [S |-> [S EXCEPT !.packages = disk], ok |-> TRUE, refreshed |-> TRUE]
    ELSE [S |-> [S EXCEPT !.packages = {}], ok |-> FALSE, refreshed |-> FALSE]

\* update_index, then a new RegistryIndex over what was fetched; the field
\* `updated` is not assigned.
do_update(S, remote, ok) ==
    IF ok
    THEN [S |-> [S EXCEPT !.packages = remote], ok |-> TRUE, refreshed |-> TRUE]
    ELSE [S |-> S, ok |-> FALSE, refreshed |-> FALSE]

RegistrySource_update(S, pin, remote, ok) ==
    IF pin # "locked" THEN do_update(S, remote, ok)
    ELSE [S |-> S, ok |-> TRUE, refreshed |-> FALSE]

SourceUpdate(k, S, avail, ok) ==
    IF k = "path" THEN PathSource_update(S, avail, ok)
    ELSE IF k = "directory" THEN DirectorySource_update(S, avail, ok)
    ELSE IF k = "registry" THEN RegistrySource_update(S, "none", avail, ok)
    ELSE RegistrySource_update(S, "locked", avail, ok)

\* update() on the object of implementation k.  okUpdates counts the
\* successful calls, `first` is the package list after the first of them, and
\* refreshes counts the reads or fetches made by the later ones.
Update(k, avail, ok) ==
    /\ impls[k].okUpdates < MaxUpdates
    /\ LET r == SourceUpdate(k, impls[k], avail, ok)
           isFirst == r.ok /\ impls[k].okUpdates = 0
       IN impls' = [impls EXCEPT ![k] =
             [r.S EXCEPT
                 !.okUpdates = IF r.ok THEN @ + 1 ELSE @,
                 !.first = IF isFirst THEN r.S.packages ELSE @,
                 !.refreshes = IF r.ok /\ ~isFirst /\ r.refreshed THEN @ + 1 ELSE @]]
    /\ UNCHANGED <<regVars, dl, cfg, repl, buildVars, utilVars>>

NextUpdate ==
    \E k \in SourceImpls : \E avail \in PackageLists : \E ok \in BOOLEAN :
        Update(k, avail, ok)

SpecUpdate == InitOverride /\ [][NextUpdate]_vars

\* C9: for every source implementation, an update() after a successful first
\* one reads or fetches nothing again and leaves the package list as the
\* first one left it.
C9_Idempotent ==
    \A k \in SourceImpls :
        impls[k].okUpdates >= 2 =>
            (impls[k].refreshes = 0 /\ impls[k].packages = impls[k].first)

(***************************************************************************)
(* ReplacedSource (sources/replaced.rs)                                    *)
(***************************************************************************)

\* The packages of the wrapped source, whose id is rid.  A package is its
\* manifest: the summary and the `replace` list (manifest.rs:20-32).
InnerPackages(rid) ==
    << [summary |-> [id |-> Pkg("a", 1, rid), deps |-> <<Dep("b", ReqAny, rid)>>],
        replace |-> <<>>],
       [summary |-> [id |-> Pkg("a", 2, rid),
                     deps |-> <<Dep("b", ReqAny, Sid("s3", "none"))>>],
        replace |-> <<>>],
       [summary |-> [id |-> Pkg("b", 1, rid), deps |-> <<>>],
        replace |-> <<Dep("a", ReqExact(1), rid)>>] >>

Dependency_map_source(dep, to_replace, replace_with) ==
    IF ~SidEq(dep.source, to_replace) THEN dep ELSE [dep EXCEPT !.source = replace_with]

Summary_map_source(summary, to_replace, replace_with) ==
    LET me == IF SidEq(summary.id.source, to_replace)
              THEN override_id(summary, with_source_id(summary.id, replace_with))
              ELSE summary
    IN map_dependencies(me, LAMBDA d : Dependency_map_source(d, to_replace, replace_with))

\* Manifest { summary: self.summary.map_source(..), ..self }
Manifest_map_source(manifest, to_replace, replace_with) ==
    [manifest EXCEPT !.summary = Summary_map_source(@, to_replace, replace_with)]

Package_map_source(pkg, to_replace, replace_with) ==
    Manifest_map_source(pkg, to_replace, replace_with)

\* query and download of the wrapped source.
InnerQuery(rid, dep) ==
    SelectSeq(MapSeq(LAMBDA p : p.summary, InnerPackages(rid)), LAMBDA s : matches(dep, s))

InnerDownload(rid, id) ==
    SelectSeq(InnerPackages(rid), LAMBDA p : PkgEq(p.summary.id, id))

ReplacedSource_query(RS, dep) ==
    LET d == Dependency_map_source(dep, RS.to_replace, RS.replace_with)
        ret == InnerQuery(RS.replace_with, d)
    IN [sent |-> <<d>>, inner |-> ret,
        ret |-> MapSeq(LAMBDA s : Summary_map_source(s, RS.replace_with, RS.to_replace), ret),
        ok |-> TRUE]

ReplacedSource_download(RS, id) ==
    LET i == with_source_id(id, RS.replace_with)
        pkg == InnerDownload(RS.replace_with, i)
    IN [sent |-> <<i>>, inner |-> pkg,
        ret |-> MapSeq(LAMBDA p : Package_map_source(p, RS.replace_with, RS.to_replace), pkg),
        ok |-> pkg # <<>>]

\* ReplacedSource::new as SourceConfigMap::load calls it: the replacing id
\* takes the pin of the replaced one, and the two ids differ.
ReplNew(id, cfg_id) ==
    /\ ~SidEq(id, cfg_id)
    /\ repl' = [to_replace |-> id, replace_with |-> with_precise(cfg_id, precise(id)),
                last |-> [op |-> "new", arg |-> <<id, cfg_id>>, sent |-> <<>>,
                          inner |-> <<>>, ret |-> <<>>, ok |-> TRUE]]
    /\ UNCHANGED <<regVars, dl, cfg, impls, buildVars, utilVars>>

ReplQuery(dep) ==
    /\ SidEq(dep.source, repl.to_replace)
    /\ repl' = [repl EXCEPT !.last = [op |-> "query", arg |-> <<dep>>]
                                         @@ ReplacedSource_query(repl, dep)]
    /\ UNCHANGED <<regVars, dl, cfg, impls, buildVars, utilVars>>

ReplDownload(id) ==
    /\ SidEq(id.source, repl.to_replace)
    /\ repl' = [repl EXCEPT !.last = [op |-> "download", arg |-> <<id>>]
                                         @@ ReplacedSource_download(repl, id)]
    /\ UNCHANGED <<regVars, dl, cfg, impls, buildVars, utilVars>>

ReplacedIds == {Sid("s1", p) : p \in PreciseVals}
ReplacingIds == {Sid("s2", "none"), Sid("s4", "none")}
ReplDeps == {Dep(n, r, s) : n \in Names, r \in {ReqAny, ReqExact(1), ReqExact(2)},
                            s \in ReplacedIds}
ReplPkgIds == {Pkg(n, v, s) : n \in Names, v \in Versions, s \in ReplacedIds}

NextReplaced ==
    \/ \E id \in ReplacedIds : \E cfg_id \in ReplacingIds : ReplNew(id, cfg_id)
    \/ \E dep \in ReplDeps : ReplQuery(dep)
    \/ \E id \in ReplPkgIds : ReplDownload(id)

SpecReplaced == InitOverride /\ [][NextReplaced]_vars

CarriesReplacing(sid) == SidEq(sid, repl.replace_with)

SummaryRewritten(s) ==
    /\ s.id.source = repl.to_replace
    /\ \A i \in 1..Len(s.deps) : ~CarriesReplacing(s.deps[i].source)

\* C10: the wrapped source receives only dependencies and package ids on the
\* replace-with id, and every summary and package handed back carries the
\* to-replace id in place of the replace-with id, in every part of it.
C10_Rewrite ==
    /\ repl.last.op = "query" =>
          /\ repl.last.sent[1].source = repl.replace_with
          /\ Len(repl.last.ret) = Len(repl.last.inner)
          /\ \A i \in 1..Len(repl.last.ret) : SummaryRewritten(repl.last.ret[i])
    /\ repl.last.op = "download" =>
          /\ repl.last.sent[1].source = repl.replace_with
          /\ \A i \in 1..Len(repl.last.ret) :
                /\ SummaryRewritten(repl.last.ret[i].summary)
                /\ \A j \in 1..Len(repl.last.ret[i].replace) :
                      ~CarriesReplacing(repl.last.ret[i].replace[j].source)

(***************************************************************************)
(* Context: the unit graph (ops/craft_cc/context.rs:419-641) and           *)
(* Kind::for_target (ops/craft_rustc/mod.rs:697-708)                       *)
(***************************************************************************)

\* "p" is the package being built; it may depend on "q".
UnitPkgs == {"p", "q"}
DepKinds == {"normal", "build", "dev"}
UnitKinds == {"Host", "Target"}

\* A package is described by its targets: the library ("none", an ordinary
\* "lib", a "plugin" compiled for the host, or a "static" library that is not
\* linkable), a binary, an integration test, a build script, the `links` key,
\* which needs a build script, and whether the configuration overrides the
\* output of the build script, which needs `links`.  Every package has a
\* library or a binary.
\* Nothing depends on p, so its `links` key is read by nobody and is set
\* whenever it has a build script.
RootShapes ==
    {s \in [lib : {"none", "lib", "plugin", "static"}, bin : BOOLEAN, test : BOOLEAN,
            build : BOOLEAN, links : BOOLEAN, overridden : {FALSE}] :
        (s.lib # "none" \/ s.bin) /\ (s.links = s.build)}

DepShapes ==
    {s \in [lib : {"lib", "plugin"}, bin : {FALSE}, test : {FALSE},
            build : BOOLEAN, links : BOOLEAN, overridden : BOOLEAN] :
        (s.links => s.build) /\ (s.overridden => s.links)}

\* The commands: build_config.test and build_config.doc_all.
Modes == {[test |-> FALSE, doc_all |-> FALSE], [test |-> TRUE, doc_all |-> FALSE],
          [test |-> FALSE, doc_all |-> TRUE]}

\* What a Context is built from: the packages, the kinds of dependency that
\* p declares on q (none: q is not in the resolve graph), and the command.
Worlds ==
    {[pkgs |-> [p |-> sp, q |-> sq], deps |-> deps, test |-> m.test,
      doc_all |-> m.doc_all] :
        sp \in RootShapes, sq \in DepShapes,
        deps \in {{"normal"}, {"build"}, {"dev"}, {"normal", "build"}},
        m \in Modes}

Unit(pkg, target, profile, kind) ==
    [pkg |-> pkg, target |-> target, profile |-> profile, kind |-> kind]

HasTarget(w, pkg, t) ==
    IF t = "lib" THEN w.pkgs[pkg].lib # "none"
    ELSE IF t = "bin" THEN w.pkgs[pkg].bin
    ELSE IF t = "build" THEN w.pkgs[pkg].build
    ELSE w.pkgs[pkg].test

\* pkg.targets(): the manifest lists the library first, then the binary, the
\* build script and the test.
targets(w, pkg) ==
    SelectSeq(<<"lib", "bin", "build", "test">>, LAMBDA t : HasTarget(w, pkg, t))

is_lib(t) == t = "lib"
is_bin(t) == t = "bin"
is_test(t) == t = "test"
is_custom_build(t) == t = "build"

linkable(w, pkg, t) == t = "lib" /\ w.pkgs[pkg].lib \in {"lib", "plugin"}

for_host(w, pkg, t) == t = "build" \/ (t = "lib" /\ w.pkgs[pkg].lib = "plugin")

\* A for_target that passes the kind on whatever the target is.
for_target_Inherit(kind, target_for_host) == kind

\* Kind::for_target, given the kind and target.for_host().
for_target(kind, target_for_host) ==
    IF kind = "Host" THEN "Host"
    ELSE IF target_for_host THEN "Host"
    ELSE "Target"

\* The profiles by the flags dep_targets reads.
profile_test(profile) == profile = "test"
profile_doc(profile) == profile = "doc"
profile_run_custom_build(profile) == profile = "custom_build"

lib_profile(w) == IF w.test THEN "test_deps" ELSE "dev"

build_script_profile(w) == lib_profile(w)

\* self.resolve.deps(id) and unit.pkg.dependencies().
resolve_deps(w, pkg) == IF pkg = "p" /\ w.deps # {} THEN {"q"} ELSE {}

dependencies(w, pkg) == IF pkg = "p" THEN w.deps ELSE {}

\* Set of the first element of s that satisfies P (Iterator::find).
FindTarget(s, P(_)) ==
    IF FindFirst(s, P) = 0 THEN {} ELSE {s[FindFirst(s, P)]}

dep_build_script(w, unit) ==
    {Unit(unit.pkg, t, "custom_build", unit.kind) :
        t \in FindTarget(targets(w, unit.pkg), is_custom_build)}

maybe_lib(w, unit) ==
    {Unit(unit.pkg, t, lib_profile(w), for_target(unit.kind, for_host(w, unit.pkg, t))) :
        t \in FindTarget(targets(w, unit.pkg), LAMBDA x : linkable(w, unit.pkg, x))}

\* The closure of the first filter of dep_targets, for a declared dependency
\* of kind d.  Platform-specific and optional dependencies are not modelled:
\* they only take dependencies away.
DepUsed(unit, d) ==
    /\ is_custom_build(unit.target) = (d = "build")
    /\ (d = "dev") => (is_test(unit.target) \/ profile_test(unit.profile))

\* dep_targets for a unit that neither runs a build script nor documents.
dep_targets_build(w, unit) ==
    LET libs == {Unit(dep, "lib", lib_profile(w),
                      for_target(unit.kind, for_host(w, dep, "lib"))) :
                    dep \in {x \in resolve_deps(w, unit.pkg) :
                                /\ \E d \in dependencies(w, unit.pkg) : DepUsed(unit, d)
                                /\ HasTarget(w, x, "lib")}}
        bins == {Unit(unit.pkg, "bin", lib_profile(w),
                      for_target(unit.kind, for_host(w, unit.pkg, "bin"))) :
                    t \in {x \in {"bin"} : HasTarget(w, unit.pkg, x)}}
    IN IF is_custom_build(unit.target) THEN libs
       ELSE IF is_lib(unit.target) THEN libs \cup dep_build_script(w, unit)
       ELSE libs \cup dep_build_script(w, unit) \cup maybe_lib(w, unit)
            \cup (IF profile_test(unit.profile) /\ is_test(unit.target) THEN bins ELSE {})

\* dep_run_custom_build with the test `unit.target.linkable()` left out.
dep_run_custom_build_AnyTarget(w, unit) ==
    IF w.pkgs[unit.pkg].overridden THEN {}
    ELSE LET not_custom_build ==
                 FindTarget(targets(w, unit.pkg), LAMBDA t : ~is_custom_build(t))
             deps == UNION {dep_targets_build(w, [unit EXCEPT !.target = t, !.profile = "dev"]) :
                               t \in not_custom_build}
         IN UNION {dep_build_script(w, d) : d \in {x \in deps : w.pkgs[x.pkg].links}}
            \cup {[unit EXCEPT !.profile = build_script_profile(w), !.kind = "Host"]}

dep_run_custom_build(w, unit) ==
    IF w.pkgs[unit.pkg].overridden THEN {}
    ELSE LET not_custom_build ==
                 FindTarget(targets(w, unit.pkg), LAMBDA t : ~is_custom_build(t))
             deps == UNION {dep_targets_build(w, [unit EXCEPT !.target = t, !.profile = "dev"]) :
                               t \in not_custom_build}
         IN UNION {dep_build_script(w, d) :
                      d \in {x \in deps : linkable(w, x.pkg, x.target) /\ w.pkgs[x.pkg].links}}
            \cup {[unit EXCEPT !.profile = build_script_profile(w), !.kind = "Host"]}

doc_deps(w, unit) ==
    LET deps == {x \in resolve_deps(w, unit.pkg) :
                    "normal" \in dependencies(w, unit.pkg) /\ HasTarget(w, x, "lib")}
        built == {Unit(dep, "lib", lib_profile(w),
                       for_target(unit.kind, for_host(w, dep, "lib"))) : dep \in deps}
        documented == {Unit(dep, "lib", "doc",
                            for_target(unit.kind, for_host(w, dep, "lib"))) : dep \in deps}
    IN built \cup (IF w.doc_all THEN documented ELSE {})
       \cup dep_build_script(w, unit)
       \cup (IF is_bin(unit.target) THEN maybe_lib(w, unit) ELSE {})

dep_targets(w, unit) ==
    IF profile_run_custom_build(unit.profile) THEN dep_run_custom_build(w, unit)
    ELSE IF profile_doc(unit.profile) THEN doc_deps(w, unit)
    ELSE dep_targets_build(w, unit)

\* The units compile_targets starts from: a target of p other than the build
\* script, in the profile of the command, for the host when the target is
\* for_host or no --target was requested.
RootUnits(w, requested_target) ==
    {Unit("p", t, profile,
          IF for_host(w, "p", t) THEN "Host"
          ELSE IF requested_target THEN "Target" ELSE "Host") :
        t \in {x \in {"lib", "bin", "test"} : HasTarget(w, "p", x)},
        profile \in IF w.test THEN {"test"} ELSE {"dev", "doc"}}

\* Context::new.
Configure(w) ==
    /\ ug.w = <<>>
    /\ ug' = [ug EXCEPT !.w = <<w>>]
    /\ UNCHANGED <<regVars, sourceVars, utilVars, meta, cmd, pset, net, tests, cli>>

\* compile_targets takes up a root unit.
Root(unit, requested_target) ==
    /\ ug.w # <<>> /\ ug.cur = <<>>
    /\ unit \in RootUnits(ug.w[1], requested_target)
    /\ ug' = [ug EXCEPT !.mark = <<unit>>, !.cur = <<unit>>]
    /\ UNCHANGED <<regVars, sourceVars, utilVars, meta, cmd, pset, net, tests, cli>>

\* The recursion over dep_targets goes on to the dependency d of the current
\* unit.  `mark` is the unit a path is followed from: either the one marked
\* before or, with from_here, the current unit.
Step(d, from_here) ==
    /\ ug.cur # <<>>
    /\ d \in dep_targets(ug.w[1], ug.cur[1])
    /\ ug' = [ug EXCEPT !.mark = IF from_here THEN ug.cur ELSE @,
                        !.from = ug.cur, !.cur = <<d>>, !.moved = TRUE]
    /\ UNCHANGED <<regVars, sourceVars, utilVars, meta, cmd, pset, net, tests, cli>>

NextUnits ==
    \/ \E w \in Worlds : Configure(w)
    \/ \E requested_target \in BOOLEAN :
          \E unit \in (IF ug.w = <<>> THEN {} ELSE RootUnits(ug.w[1], requested_target)) :
             Root(unit, requested_target)
    \/ \E d \in (IF ug.cur = <<>> THEN {} ELSE dep_targets(ug.w[1], ug.cur[1])) :
          \E from_here \in BOOLEAN : Step(d, from_here)

SpecUnits == InitOverride /\ [][NextUnits]_vars

\* C12: no unit is reachable from a member of its own dep_targets: a path
\* along dep_targets never comes back to the unit it was followed from.
C12_Acyclic == ug.moved => ug.cur # ug.mark

\* The run of p's build script waits for the run of q's, which `links`.
C12_Witness ==
    /\ ug.moved
    /\ ug.mark # <<>> /\ ug.mark[1].pkg = "p" /\ ug.mark[1].profile = "custom_build"
    /\ ug.cur[1].pkg = "q" /\ ug.cur[1].profile = "custom_build"

\* C13 as stated: every unit of dep_targets is for the host whenever the
\* depending unit is for the host or the unit's target is for_host, and has
\* the depending unit's kind otherwise.
C13_Claimed ==
    ug.moved =>
        ug.cur[1].kind =
            IF ug.from[1].kind = "Host"
               \/ for_host(ug.w[1], ug.cur[1].pkg, ug.cur[1].target)
            THEN "Host" ELSE ug.from[1].kind

\* C13: a unit that dep_targets makes for a target other than a build script
\* (the library of a dependency, the package's own library, a sibling binary)
\* is for the host whenever the depending unit is for the host or the target
\* is for_host, and has the depending unit's kind otherwise; a build script is
\* compiled for the host, so every library that the compile unit of a build
\* script depends on is for the host; the run of a build script, whose target
\* is for_host, has the kind of the unit it is run for: the depending unit of
\* the same package, or the library unit of the `links` dependency.
C13_KindOfDependency ==
    ug.moved =>
        LET w == ug.w[1]
            from == ug.from[1]
            cur == ug.cur[1]
        IN /\ ~is_custom_build(cur.target) =>
                  cur.kind = IF from.kind = "Host" \/ for_host(w, cur.pkg, cur.target)
                             THEN "Host" ELSE from.kind
           /\ is_custom_build(cur.target) /\ ~profile_run_custom_build(cur.profile) =>
                  cur.kind = "Host"
           /\ is_custom_build(from.target) /\ ~profile_run_custom_build(from.profile)
              /\ is_lib(cur.target) => cur.kind = "Host"
           /\ is_custom_build(cur.target) /\ profile_run_custom_build(cur.profile) =>
                  cur.kind = IF cur.pkg = from.pkg THEN from.kind
                             ELSE IF from.kind = "Host" \/ for_host(w, cur.pkg, "lib")
                             THEN "Host" ELSE from.kind

\* Followed from a unit built for the target, the compile unit of p's build
\* script depends on the plain library of the build dependency q.
C13_Witness ==
    /\ ug.moved
    /\ ug.mark[1].kind = "Target"
    /\ ug.from[1].pkg = "p" /\ is_custom_build(ug.from[1].target)
    /\ ~profile_run_custom_build(ug.from[1].profile)
    /\ ug.cur[1].pkg = "q" /\ is_lib(ug.cur[1].target)
    /\ ~for_host(ug.w[1], "q", "lib")
    /\ ug.cur[1].kind = "Host"

(***************************************************************************)
(* Context::target_metadata and Context::file_stem                         *)
(* (ops/craft_cc/context.rs:298-351).                                      *)
(***************************************************************************)

\* A Metadata value is written as the sequence of the values hashed into
\* it: short_hash is taken to have no collisions.
generate_metadata(pkg) == <<pkg.name>>

\* Metadata::mix: the hash of the old hash and t.
mix(m, t) == Append(m, t)

\* The value of __CRAFT_DEFAULT_LIB_METADATA: unset, or a string.
EnvValues == {<<>>, <<"test">>, <<"stable">>}

MetaSources == {"path", "registry", "git"}

\* The package of a unit: its name, the kind of its source, and whether it is
\* the root package of the build.
MetaPackages == [name : {"foo-bar"}, source : MetaSources, root : BOOLEAN]

\* Target::lib_target and test_target always carry a Metadata, bin_target and
\* custom_build_target carry one or none.  The Metadata is the package's or
\* one of its own.
MetaTargets(pkg) ==
    [kind : {"lib", "test"}, name : {"foo-bar"},
     metadata : {<<generate_metadata(pkg)>>, <<mix(generate_metadata(pkg), "own")>>}]
    \cup [kind : {"bin", "build"}, name : {"foo-bar"},
          metadata : {<<>>, <<generate_metadata(pkg)>>}]

\* Target::chest_name: the name with `-` turned into `_`.
chest_name(target) == IF target.name = "foo-bar" THEN "foo_bar" ELSE target.name

\* format!("bin-{}", unit.target.name()).
bin_name(target) == IF target.name = "foo-bar" THEN "bin-foo-bar" ELSE "bin"

allows_underscores(target) == target.kind \in {"bin", "build"}

is_path(pkg) == pkg.source = "path"

\* unit = [pkg, target, test], test being unit.profile.test.
target_metadata(env, unit) ==
    LET metadata == unit.target.metadata
    IN IF unit.target.kind = "lib" /\ unit.test
       THEN IF metadata = <<>> THEN <<>> ELSE <<mix(metadata[1], "test")>>
       ELSE IF unit.target.kind = "bin" /\ unit.test
       THEN <<mix(generate_metadata(unit.pkg), bin_name(unit.target))>>
       ELSE IF is_path(unit.pkg) /\ ~unit.test
       THEN IF unit.target.kind = "lib"
            THEN IF env = <<>> THEN <<>>
                 ELSE <<mix(generate_metadata(unit.pkg), env[1])>>
            ELSE <<>>
       ELSE metadata

\* The stem as [base, extra_filename]; extra_filename is <<>> when no hash
\* is added.
file_stem(env, unit) ==
    LET m == target_metadata(env, unit)
    IN IF m # <<>> THEN [base |-> chest_name(unit.target), extra_filename |-> m]
       ELSE IF allows_underscores(unit.target)
       THEN [base |-> unit.target.name, extra_filename |-> <<>>]
       ELSE [base |-> chest_name(unit.target), extra_filename |-> <<>>]

\* A build starts: the environment, and one target of one package.
MetaContext(env, pkg, target) ==
    /\ target \in MetaTargets(pkg)
    /\ meta' = [ctx |-> <<[env |-> env, pkg |-> pkg, target |-> target]>>,
                built |-> [test \in BOOLEAN |-> <<>>]]
    /\ UNCHANGED <<regVars, sourceVars, utilVars, ug, cmd, pset, net, tests, cli>>

\* The unit of the target in a profile with or without `test` is prepared:
\* its metadata and file stem are computed.
BuildUnit(test) ==
    /\ meta.ctx # <<>>
    /\ LET c == meta.ctx[1]
           unit == [pkg |-> c.pkg, target |-> c.target, test |-> test]
       IN meta' = [meta EXCEPT !.built[test] =
                      <<[metadata |-> target_metadata(c.env, unit),
                         stem |-> file_stem(c.env, unit)]>>]
    /\ UNCHANGED <<regVars, sourceVars, utilVars, ug, cmd, pset, net, tests, cli>>

NextMetadata ==
    \/ \E env \in EnvValues : \E pkg \in MetaPackages : \E target \in MetaTargets(pkg) :
          MetaContext(env, pkg, target)
    \/ \E test \in BOOLEAN : BuildUnit(test)

SpecMetadata == InitOverride /\ [][NextMetadata]_vars

\* C14: the unit that builds a library and the unit that builds the test
\* harness of the same library never get the same metadata.
C14_DistinctMetadata ==
    (/\ meta.ctx # <<>> /\ meta.ctx[1].target.kind = "lib"
     /\ meta.built[FALSE] # <<>> /\ meta.built[TRUE] # <<>>)
        => meta.built[FALSE][1].metadata # meta.built[TRUE][1].metadata

\* C15: a unit's file stem has no hash exactly when its package is the root
\* package, comes from a path source, and the unit is not in test mode.
C15_FileStem ==
    \A test \in BOOLEAN :
        meta.built[test] # <<>> =>
            (meta.built[test][1].stem.extra_filename = <<>>
                <=> (/\ meta.ctx[1].pkg.root /\ is_path(meta.ctx[1].pkg) /\ ~test))

(***************************************************************************)
(* Completing a compile command from build-script outputs                  *)
(* (ops/craft_rustc/mod.rs:240-280, 371-395).  Package p depends on q.     *)
(***************************************************************************)

\* A package by its targets and whether it has a build script; q, being
\* depended on, has a library.
CmdShapes(pkg) ==
    {s \in [lib : BOOLEAN, bin : BOOLEAN, build : BOOLEAN] :
        (s.lib \/ s.bin) /\ (pkg = "q" => s.lib)}

\* What the build script of pkg may print: rustc-link-search paths,
\* rustc-link-lib names, rustc-cfg values.  Packages link different
\* libraries.
link_name(pkg) == IF pkg = "p" THEN "m" ELSE "z"

search_path(pkg) == IF pkg = "p" THEN "/opt/m/lib" ELSE "/opt/z/lib"

BuildOutputs(pkg) ==
    [library_paths : {<<>>, <<search_path(pkg)>>, <<search_path(pkg), "/usr/local/lib">>},
     library_links : {<<>>, <<link_name(pkg)>>},
     cfgs : {<<>>, <<"has_native">>}]

\* The state of BuildState.outputs when a command is completed: an output
\* for the key of a package with a build script, or none (<<>>).
CmdWorlds ==
    {w \in {[pkgs |-> [p |-> sp, q |-> sq], outputs |-> [p |-> op, q |-> oq]] :
                sp \in CmdShapes("p"), sq \in CmdShapes("q"),
                op \in {<<>>} \cup {<<o>> : o \in BuildOutputs("p")},
                oq \in {<<>>} \cup {<<o>> : o \in BuildOutputs("q")}} :
        \A pkg \in UnitPkgs : w.outputs[pkg] # <<>> => w.pkgs[pkg].build}

CmdUnits(w) ==
    {u \in [pkg : UnitPkgs, target : {"lib", "bin"}] :
        IF u.target = "lib" THEN w.pkgs[u.pkg].lib ELSE w.pkgs[u.pkg].bin}

\* BuildScripts.to_link of a unit: the key of its own package and the keys
\* of the packages it depends on, for those that have a build script; own
\* package first.
to_link(w, unit) ==
    (IF w.pkgs[unit.pkg].build THEN <<unit.pkg>> ELSE <<>>)
    \o (IF unit.pkg = "p" /\ w.pkgs["q"].build THEN <<"q">> ELSE <<>>)

pass_l_flag(w, unit) == is_lib(unit.target) \/ ~w.pkgs[unit.pkg].lib

\* -L and value, --cfg and value, -l and value for the elements of s.
FlagArgs(flag, s) ==
    IF s = <<>> THEN <<>>
    ELSE IF Len(s) = 1 THEN <<flag, s[1]>>
    ELSE <<flag, s[1], flag, s[2]>>

\* What one key adds, with -l for the key of every package.
KeyArgs_AllLinks(output, key, pass_l, current_id) ==
    FlagArgs("-L", output.library_paths)
    \o (IF key = current_id THEN FlagArgs("--cfg", output.cfgs) ELSE <<>>)
    \o FlagArgs("-l", output.library_links)

\* The body of the loop of add_native_deps for one key.
KeyArgs(output, key, pass_l, current_id) ==
    FlagArgs("-L", output.library_paths)
    \o (IF key = current_id
        THEN FlagArgs("--cfg", output.cfgs)
             \o (IF pass_l THEN FlagArgs("-l", output.library_links) ELSE <<>>)
        ELSE <<>>)

RECURSIVE add_native_deps(_, _, _, _, _)
\* The arguments added for the keys of build_scripts from index i on;
\* [ok |-> FALSE] when build_state has no output for a key.
add_native_deps(build_state, build_scripts, pass_l, current_id, i) ==
    IF i > Len(build_scripts) THEN [ok |-> TRUE, args |-> <<>>]
    ELSE IF build_state[build_scripts[i]] = <<>> THEN [ok |-> FALSE, args |-> <<>>]
    ELSE LET rest == add_native_deps(build_state, build_scripts, pass_l, current_id, i + 1)
         IN IF ~rest.ok THEN rest
            ELSE [ok |-> TRUE,
                  args |-> KeyArgs(build_state[build_scripts[i]][1], build_scripts[i],
                                   pass_l, current_id) \o rest.args]

\* The build scripts have run.
BuildState(w) ==
    /\ cmd.w = <<>>
    /\ cmd' = [cmd EXCEPT !.w = <<w>>]
    /\ UNCHANGED <<regVars, sourceVars, utilVars, ug, meta, pset, net, tests, cli>>

\* The work of rustc(cx, unit): the native arguments are added and the
\* compiler is run, or the work fails on a missing output.
Rustc(unit) ==
    /\ cmd.w # <<>>
    /\ unit \in CmdUnits(cmd.w[1])
    /\ LET w == cmd.w[1]
           r == add_native_deps(w.outputs, to_link(w, unit), pass_l_flag(w, unit),
                                unit.pkg, 1)
       IN cmd' = [cmd EXCEPT !.last = <<[unit |-> unit, ok |-> r.ok, args |-> r.args]>>]
    /\ UNCHANGED <<regVars, sourceVars, utilVars, ug, meta, pset, net, tests, cli>>

NextCommand ==
    \/ \E w \in CmdWorlds : BuildState(w)
    \/ \E unit \in [pkg : UnitPkgs, target : {"lib", "bin"}] : Rustc(unit)

SpecCommand == InitOverride /\ [][NextCommand]_vars

\* The argument `flag` is followed by `value` somewhere in args.
HasArg(args, flag, value) ==
    \E i \in 1..(Len(args) - 1) : args[i] = flag /\ args[i + 1] = value

\* Every link-search path of every output the unit links to is passed with -L.
AllSearchPaths(w, c) ==
    \A i \in 1..Len(to_link(w, c.unit)) :
        LET output == w.outputs[to_link(w, c.unit)[i]][1]
        IN \A j \in 1..Len(output.library_paths) :
              HasArg(c.args, "-L", output.library_paths[j])

\* No rustc-link-lib of another package is passed with -l.
NoForeignLinks(w, c) ==
    \A pkg \in UnitPkgs \ {c.unit.pkg} : ~HasArg(c.args, "-l", link_name(pkg))

\* Every rustc-link-lib of the unit's own package is passed with -l.
OwnLinks(w, c) ==
    (w.pkgs[c.unit.pkg].build /\ w.outputs[c.unit.pkg] # <<>>) =>
        \A j \in 1..Len(w.outputs[c.unit.pkg][1].library_links) :
            HasArg(c.args, "-l", w.outputs[c.unit.pkg][1].library_links[j])

\* C16 as stated: -L for every search path of every output linked to, -l for
\* the package's own rustc-link-lib in every compilation of the package, and
\* -l of no other package.
C16_Claimed ==
    (cmd.last # <<>> /\ cmd.last[1].ok) =>
        /\ AllSearchPaths(cmd.w[1], cmd.last[1])
        /\ OwnLinks(cmd.w[1], cmd.last[1])
        /\ NoForeignLinks(cmd.w[1], cmd.last[1])

\* C16: a completed command has -L for every search path of every output
\* the unit links to and -l of no other package; it has -l for its own
\* package's rustc-link-lib when the unit is the library or the package has
\* no library, and no -l at all otherwise.
C16_NativeDeps ==
    (cmd.last # <<>> /\ cmd.last[1].ok) =>
        /\ AllSearchPaths(cmd.w[1], cmd.last[1])
        /\ NoForeignLinks(cmd.w[1], cmd.last[1])
        /\ IF pass_l_flag(cmd.w[1], cmd.last[1].unit)
           THEN OwnLinks(cmd.w[1], cmd.last[1])
           ELSE \A pkg \in UnitPkgs : ~HasArg(cmd.last[1].args, "-l", link_name(pkg))

\* The library of p is compiled: it links m through its own build script
\* and depends on q, whose build script links z from /opt/z/lib.
C16_Witness ==
    /\ cmd.last # <<>> /\ cmd.last[1].ok
    /\ cmd.last[1].unit = [pkg |-> "p", target |-> "lib"]
    /\ cmd.w[1].pkgs["q"].build /\ cmd.w[1].outputs["q"] # <<>>
    /\ cmd.w[1].outputs["q"][1].library_links = <<"z">>
    /\ HasArg(cmd.last[1].args, "-L", "/opt/z/lib")
    /\ HasArg(cmd.last[1].args, "-l", "m")
    /\ ~HasArg(cmd.last[1].args, "-l", "z")

(***************************************************************************)
(* PackageSet (package.rs:160-207): one lazy cell per package id.          *)
(***************************************************************************)

MaxGets == 4

\* The ids of the set, and one id that is not in it.
SetIds == {"a", "b"}

AskedIds == SetIds \cup {"c"}

\* What Source::download would return if called: an error, or a package.
DownloadOutcomes == {"error", "pkg1", "pkg2"}

\* A get that downloads whatever the cell holds.
get_NoCache(ps, id, outcome) ==
    IF id \notin SetIds
    THEN [ps EXCEPT !.gets = @ + 1,
                    !.last = <<[id |-> id, ok |-> FALSE, ret |-> <<>>,
                                before |-> <<>>, downloaded |-> FALSE]>>]
    ELSE IF id \notin ps.sources \/ outcome = "error"
    THEN [ps EXCEPT !.gets = @ + 1,
                    !.downloads[id] = IF id \in ps.sources THEN @ + 1 ELSE @,
                    !.last = <<[id |-> id, ok |-> FALSE, ret |-> <<>>,
                                before |-> ps.cells[id], downloaded |-> id \in ps.sources]>>]
    ELSE [ps EXCEPT !.gets = @ + 1,
                    !.cells[id] = <<outcome>>,
                    !.downloads[id] = @ + 1,
                    !.fills[id] = @ + 1,
                    !.last = <<[id |-> id, ok |-> TRUE, ret |-> <<outcome>>,
                                before |-> ps.cells[id], downloaded |-> TRUE]>>]

\* PackageSet::get: the slot is looked up, a filled cell is returned as it
\* is, and otherwise the source is looked up, asked to download, and the
\* cell is filled.
get(ps, id, outcome) ==
    IF id \notin SetIds
    THEN [ps EXCEPT !.gets = @ + 1,
                    !.last = <<[id |-> id, ok |-> FALSE, ret |-> <<>>,
                                before |-> <<>>, downloaded |-> FALSE]>>]
    ELSE IF ps.cells[id] # <<>>
    THEN [ps EXCEPT !.gets = @ + 1,
                    !.last = <<[id |-> id, ok |-> TRUE, ret |-> ps.cells[id],
                                before |-> ps.cells[id], downloaded |-> FALSE]>>]
    ELSE IF id \notin ps.sources
    THEN [ps EXCEPT !.gets = @ + 1,
                    !.last = <<[id |-> id, ok |-> FALSE, ret |-> <<>>,
                                before |-> <<>>, downloaded |-> FALSE]>>]
    ELSE IF outcome = "error"
    THEN [ps EXCEPT !.gets = @ + 1,
                    !.downloads[id] = @ + 1,
                    !.last = <<[id |-> id, ok |-> FALSE, ret |-> <<>>,
                                before |-> <<>>, downloaded |-> TRUE]>>]
    ELSE [ps EXCEPT !.gets = @ + 1,
                    !.cells[id] = <<outcome>>,
                    !.downloads[id] = @ + 1,
                    !.fills[id] = @ + 1,
                    !.last = <<[id |-> id, ok |-> TRUE, ret |-> <<outcome>>,
                                before |-> <<>>, downloaded |-> TRUE]>>]

\* PackageSet::new: every cell empty; `srcs` are the ids whose source is in
\* the source map.
PackageSetNew(srcs) ==
    /\ ~pset.made
    /\ pset' = [pset EXCEPT !.made = TRUE, !.sources = srcs]
    /\ UNCHANGED <<regVars, sourceVars, utilVars, ug, meta, cmd, net, tests, cli>>

Get(id, outcome) ==
    /\ pset.made
    /\ pset.gets < MaxGets
    /\ pset' = get(pset, id, outcome)
    /\ UNCHANGED <<regVars, sourceVars, utilVars, ug, meta, cmd, net, tests, cli>>

NextPackageSet ==
    \/ \E srcs \in SUBSET SetIds : PackageSetNew(srcs)
    \/ \E id \in AskedIds : \E outcome \in DownloadOutcomes : Get(id, outcome)

SpecPackageSet == InitOverride /\ [][NextPackageSet]_vars

\* C17: download is called only on an empty cell, a cell is filled at most
\* once, and a get of a filled cell returns the package the cell already
\* held; a successful get leaves its package in the cell.
C17_GetOnce ==
    /\ \A id \in SetIds : pset.fills[id] <= 1
    /\ pset.last # <<>> =>
          /\ pset.last[1].downloaded => pset.last[1].before = <<>>
          /\ (pset.last[1].before # <<>>) =>
                (pset.last[1].ok /\ pset.last[1].ret = pset.last[1].before)
          /\ pset.last[1].ok => pset.cells[pset.last[1].id] = pset.last[1].ret

\* A get of a filled cell, after the download that filled it, while the
\* source would by now return another package.
C17_Witness ==
    /\ pset.last # <<>> /\ pset.last[1].ok /\ ~pset.last[1].downloaded
    /\ pset.last[1].id = "a" /\ pset.last[1].ret = <<"pkg1">>
    /\ pset.downloads["a"] = 1 /\ pset.gets >= 3

(***************************************************************************)
(* RemoteRegistry and the HTTP handle (sources/registry/remote.rs).        *)
(***************************************************************************)

MaxRequests == 3

\* The packages of the registry.
NetPkgs == {"a", "b"}

\* A file of the cache directory: absent, created but empty, or a tarball.
CacheFiles == {"none", "empty", "full"}

\* Config::network_allowed.
network_allowed(n) == ~n.frozen

\* An http_handle that does not ask the configuration.
http_handle_Unchecked(n) == TRUE

\* http_handle: TRUE when a handle is returned, FALSE when it bails.
http_handle(n) == network_allowed(n)

\* What the outside answers to update_index: whether the index is hosted on
\* github.com, whether the local repository has refs/heads/master, whether
\* github answers 304, whether the git fetch succeeds.
IndexInputs == [github : BOOLEAN, has_master : BOOLEAN, not_modified : BOOLEAN,
                fetch_ok : BOOLEAN]

\* What the server answers to a download: the response code and whether the
\* body has the checksum of the index.
DownloadInputs == [code : {200, 404}, verified : BOOLEAN]

\* RemoteRegistry::update_index.
update_index(n, in) ==
    IF ~http_handle(n)
    THEN [n EXCEPT !.last = <<[op |-> "update_index", ok |-> FALSE, cached |-> FALSE,
                               requests |-> 0]>>]
    ELSE IF in.github /\ in.has_master
    THEN IF ~n.handle /\ ~http_handle(n)
         THEN [n EXCEPT !.last = <<[op |-> "update_index", ok |-> FALSE,
                                    cached |-> FALSE, requests |-> 0]>>]
         ELSE IF in.not_modified
         THEN [n EXCEPT !.handle = TRUE, !.requests = @ + 1,
                        !.last = <<[op |-> "update_index", ok |-> TRUE,
                                    cached |-> FALSE, requests |-> 1]>>]
         ELSE [n EXCEPT !.handle = TRUE, !.requests = @ + 1, !.fetched = TRUE,
                        !.last = <<[op |-> "update_index", ok |-> in.fetch_ok,
                                    cached |-> FALSE, requests |-> 1]>>]
    ELSE [n EXCEPT !.fetched = TRUE,
                   !.last = <<[op |-> "update_index", ok |-> in.fetch_ok,
                               cached |-> FALSE, requests |-> 0]>>]

\* RemoteRegistry::download.
download(n, pkg, in) ==
    IF n.cache[pkg] = "full"
    THEN [n EXCEPT !.last = <<[op |-> "download", ok |-> TRUE, cached |-> TRUE,
                               requests |-> 0]>>]
    ELSE IF ~n.handle /\ ~http_handle(n)
    THEN [n EXCEPT !.cache[pkg] = "empty",
                   !.last = <<[op |-> "download", ok |-> FALSE, cached |-> FALSE,
                               requests |-> 0]>>]
    ELSE IF in.code # 200 \/ ~in.verified
    THEN [n EXCEPT !.cache[pkg] = "empty", !.handle = TRUE, !.requests = @ + 1,
                   !.last = <<[op |-> "download", ok |-> FALSE, cached |-> FALSE,
                               requests |-> 1]>>]
    ELSE [n EXCEPT !.cache[pkg] = "full", !.handle = TRUE, !.requests = @ + 1,
                   !.last = <<[op |-> "download", ok |-> TRUE, cached |-> FALSE,
                               requests |-> 1]>>]

\* Config::configure and RemoteRegistry::new: --frozen or not, and the
\* tarballs that earlier runs left in the cache.
NetConfigure(frozen, cached) ==
    /\ ~net.configured
    /\ net' = [net EXCEPT !.configured = TRUE, !.frozen = frozen,
                          !.cache = [pkg \in NetPkgs |->
                                        IF pkg \in cached THEN "full" ELSE "none"]]
    /\ UNCHANGED <<regVars, sourceVars, utilVars, ug, meta, cmd, pset, tests, cli>>

UpdateIndex(in) ==
    /\ net.configured
    /\ net.requests < MaxRequests
    /\ net' = update_index(net, in)
    /\ UNCHANGED <<regVars, sourceVars, utilVars, ug, meta, cmd, pset, tests, cli>>

NetDownload(pkg, in) ==
    /\ net.configured
    /\ net.requests < MaxRequests
    /\ net' = download(net, pkg, in)
    /\ UNCHANGED <<regVars, sourceVars, utilVars, ug, meta, cmd, pset, tests, cli>>

NextNetwork ==
    \/ \E frozen \in BOOLEAN : \E cached \in SUBSET NetPkgs : NetConfigure(frozen, cached)
    \/ \E in \in IndexInputs : UpdateIndex(in)
    \/ \E pkg \in NetPkgs : \E in \in DownloadInputs : NetDownload(pkg, in)

SpecNetwork == InitOverride /\ [][NextNetwork]_vars

\* C18: under --frozen no HTTP request is ever issued, no handle is held and
\* the index is never fetched; every operation has returned an error or a
\* tarball that was already in the cache.
C18_Frozen ==
    net.frozen =>
        /\ net.requests = 0 /\ ~net.handle /\ ~net.fetched
        /\ net.last # <<>> =>
              \/ ~net.last[1].ok
              \/ net.last[1].op = "download" /\ net.last[1].cached

\* Under --frozen, one package was served from the cache and the download
\* of the other, which is not cached, has just failed.
C18_Witness ==
    /\ net.frozen
    /\ net.cache["a"] = "full" /\ net.cache["b"] = "empty"
    /\ net.last # <<>> /\ net.last[1].op = "download" /\ ~net.last[1].ok

(***************************************************************************)
(* run_tests (ops/craft_test.rs:14-179).                                   *)
(***************************************************************************)

MaxTests == 2

\* The exit of each test executable of compilation.tests, in order, and of
\* each doc test of compilation.to_doc_test.
Outcomes == {"pass", "fail"}

OutcomeLists == UNION {[1..n -> Outcomes] : n \in 0..MaxTests}

\* TestOptions, the compile filter (Only or Everything), and whether the
\* compilation is for another target than the host.
TestOptions == [no_run : BOOLEAN, no_fail_fast : BOOLEAN, only_doc : BOOLEAN,
                filter_only : BOOLEAN, cross : BOOLEAN]

NoRuns == [started |-> <<>>, errors |-> <<>>]

RECURSIVE RunLoop(_, _, _, _)
\* The loop over the runs of one kind from index i on: each is started, a
\* failure is pushed to errors, and without no_fail_fast the loop is left
\* at the first failure.
RunLoop(kind, outcomes, i, no_fail_fast) ==
    IF i > Len(outcomes) THEN NoRuns
    ELSE IF outcomes[i] = "fail" /\ ~no_fail_fast
    THEN [started |-> <<<<kind, i>>>>, errors |-> <<<<kind, i>>>>]
    ELSE LET rest == RunLoop(kind, outcomes, i + 1, no_fail_fast)
         IN [started |-> <<<<kind, i>>>> \o rest.started,
             errors |-> (IF outcomes[i] = "fail" THEN <<<<kind, i>>>> ELSE <<>>)
                        \o rest.errors]

\* A run_unit_tests that goes on after a failure.
run_unit_tests_NoBreak(options, tests_) == RunLoop("test", tests_, 1, TRUE)

run_unit_tests(options, tests_) == RunLoop("test", tests_, 1, options.no_fail_fast)

run_doc_tests(options, docs) ==
    IF options.cross THEN NoRuns
    ELSE RunLoop("doc", docs, 1, options.no_fail_fast)

\* run_tests: what was started, the errors collected, and the result: <<>>
\* for Ok(None), <<errors>> for Ok(Some(CraftTestError::new(errors))).
run_tests(options, tests_, docs) ==
    IF options.no_run THEN [started |-> <<>>, errors |-> <<>>, ret |-> <<>>]
    ELSE LET first == IF options.only_doc THEN run_doc_tests(options, docs)
                      ELSE run_unit_tests(options, tests_)
         IN IF first.errors # <<>> /\ ~options.no_fail_fast
            THEN [started |-> first.started, errors |-> first.errors,
                  ret |-> <<first.errors>>]
            ELSE IF options.filter_only
            THEN [started |-> first.started, errors |-> first.errors,
                  ret |-> IF first.errors = <<>> THEN <<>> ELSE <<first.errors>>]
            ELSE LET second == run_doc_tests(options, docs)
                     errors == first.errors \o second.errors
                 IN [started |-> first.started \o second.started, errors |-> errors,
                     ret |-> IF errors = <<>> THEN <<>> ELSE <<errors>>]

\* One invocation of the test command.
RunTests(options, tests_, docs) ==
    /\ tests.last = <<>>
    /\ tests' = [last |-> <<[options |-> options, tests |-> tests_, docs |-> docs,
                             result |-> run_tests(options, tests_, docs)]>>]
    /\ UNCHANGED <<regVars, sourceVars, utilVars, ug, meta, cmd, pset, net, cli>>

NextTests ==
    \E options \in TestOptions : \E tests_ \in OutcomeLists : \E docs \in OutcomeLists :
        RunTests(options, tests_, docs)

SpecTests == InitOverride /\ [][NextTests]_vars

\* The runs the options select, in the order they are started when none
\* fails: the test executables (the doc tests with only_doc), then the doc
\* tests unless the filter names targets; no doc test when cross-compiling,
\* nothing with no_run.
Tagged(kind, outcomes) == [i \in 1..Len(outcomes) |-> [id |-> <<kind, i>>, outcome |-> outcomes[i]]]

Selected(options, tests_, docs) ==
    LET ds == IF options.cross THEN <<>> ELSE Tagged("doc", docs)
    IN IF options.no_run THEN <<>>
       ELSE (IF options.only_doc THEN ds ELSE Tagged("test", tests_))
            \o (IF options.filter_only THEN <<>> ELSE ds)

Ids(plan) == [i \in 1..Len(plan) |-> plan[i].id]

Failing(plan) == SelectSeq(plan, LAMBDA x : x.outcome = "fail")

Commands ==
    {"build", "bench", "doc", "fetch", "generate_lockfile", "git_checkout", "help",
     "locate_project", "new", "pkgid", "update", "external"}

\* What docopt makes of the arguments: flags, a fatal error, or a request
\* for the help or version text, which docopt reports as a non-fatal error.
DocoptResults == {"ok", "fatal", "help"}

\* Exit codes a failing child process may report.
ChildCodes == {1, 2, 101, 127, 255}

\* How a child process ended: success, an exit code, or a signal (no
\* code).
ChildExits ==
    {[kind |-> "success", code |-> 0], [kind |-> "signal", code |-> 0]}
    \cup [kind : {"code"}, code : ChildCodes]

\* CliError::new.
CliError_new(is_human, code) == [error |-> TRUE, exit_code |-> code, unknown |-> ~is_human]

\* CliError::code.
CliError_code(code) == [error |-> FALSE, exit_code |-> code, unknown |-> FALSE]

\* impl From<Box<CraftError>> for CliError.
CliError_from(is_human) == CliError_new(is_human, 101)

\* flags_from_args: <<>> for the decoded flags, <<err>> otherwise.
flags_from_args(docopt) ==
    IF docopt = "ok" THEN <<>>
    ELSE <<CliError_new(TRUE, IF docopt = "fatal" THEN 1 ELSE 0)>>

\* An execute_subcommand that reports a child's failure as its own.
execute_subcommand_NoForward(found, child) ==
    IF ~found THEN <<CliError_from(TRUE)>>
    ELSE IF child.kind = "success" THEN <<>>
    ELSE <<CliError_new(FALSE, 101)>>

\* execute_subcommand: <<>> for Ok(()), <<err>> otherwise.
execute_subcommand(found, child) ==
    IF ~found THEN <<CliError_from(TRUE)>>
    ELSE IF child.kind = "success" THEN <<>>
    ELSE IF child.kind = "code" THEN <<CliError_code(child.code)>>
    ELSE <<CliError_new(FALSE, 101)>>

\* bench::execute after run_benches returned Ok: the benchmark executable
\* ended as `child`.
bench_execute(child) ==
    IF child.kind = "success" THEN <<>>
    ELSE IF child.kind = "code" THEN <<CliError_new(TRUE, child.code)>>
    ELSE <<CliError_new(TRUE, 101)>>

\* locate_project::execute with a manifest whose path is not Unicode.
locate_project_execute(unicode) ==
    IF unicode THEN <<>> ELSE <<CliError_new(TRUE, 1)>>

\* help::execute.
help_execute == <<CliError_new(TRUE, 101)>>

\* handle_error: what is written to the shell.
handle_error_shown(err, verbose) ==
    IF ~err.error THEN "nothing"
    ELSE IF err.unknown /\ ~verbose THEN "unknown_error"
    ELSE IF err.exit_code # 0 THEN "error"
    ELSE "say"

\* The end of the process: process::exit(exit_code) in handle_error, or the
\* return from main.
Exited(origin, child, result) ==
    [cli EXCEPT !.stage = "exited", !.origin = origin, !.child = child,
                !.err = result,
                !.shown = IF result = <<>> THEN "nothing"
                          ELSE handle_error_shown(result[1], cli.verbose),
                !.exit = IF result = <<>> THEN <<0>> ELSE <<result[1].exit_code>>]

\* The arguments of the command are decoded.
ParseArgs(command, verbose, docopt) ==
    /\ cli.stage = "start"
    /\ LET r == flags_from_args(docopt)
           c == [cli EXCEPT !.command = command, !.verbose = verbose]
       IN cli' = IF r = <<>> THEN [c EXCEPT !.stage = "parsed"]
                 ELSE [c EXCEPT !.stage = "exited",
                                !.origin = IF docopt = "fatal" THEN "usage" ELSE "help_text",
                                !.err = r,
                                !.shown = handle_error_shown(r[1], verbose),
                                !.exit = <<r[1].exit_code>>]
    /\ UNCHANGED <<regVars, sourceVars, utilVars, ug, meta, cmd, pset, net, tests>>

\* The command succeeds.
ExecuteOk ==
    /\ cli.stage = "parsed" /\ cli.command \notin {"help", "external"}
    /\ cli' = Exited("success", <<>>, <<>>)
    /\ UNCHANGED <<regVars, sourceVars, utilVars, ug, meta, cmd, pset, net, tests>>

\* The command fails with a CraftError of the tool, converted by `try!`.
ExecuteCraftError(is_human) ==
    /\ cli.stage = "parsed" /\ cli.command \notin {"help", "external"}
    /\ cli' = Exited("tool", <<>>, <<CliError_from(is_human)>>)
    /\ UNCHANGED <<regVars, sourceVars, utilVars, ug, meta, cmd, pset, net, tests>>

\* craft bench: a benchmark executable is run.
ExecuteBench(child) ==
    /\ cli.stage = "parsed" /\ cli.command = "bench"
    /\ cli' = Exited(IF child.kind = "success" THEN "success" ELSE "child",
                     <<child>>, bench_execute(child))
    /\ UNCHANGED <<regVars, sourceVars, utilVars, ug, meta, cmd, pset, net, tests>>

\* craft locate-project with a manifest path that is not Unicode.
ExecuteLocateProject ==
    /\ cli.stage = "parsed" /\ cli.command = "locate_project"
    /\ cli' = Exited("not_unicode", <<>>, locate_project_execute(FALSE))
    /\ UNCHANGED <<regVars, sourceVars, utilVars, ug, meta, cmd, pset, net, tests>>

\* craft help executed directly.
ExecuteHelp ==
    /\ cli.stage = "parsed" /\ cli.command = "help"
    /\ cli' = Exited("tool", <<>>, help_execute)
    /\ UNCHANGED <<regVars, sourceVars, utilVars, ug, meta, cmd, pset, net, tests>>

\* A subcommand that is not built in.
ExecuteSubcommand(found, child) ==
    /\ cli.stage = "parsed" /\ cli.command = "external"
    /\ cli' = Exited(IF ~found THEN "tool"
                     ELSE IF child.kind = "success" THEN "success" ELSE "child",
                     IF found THEN <<child>> ELSE <<>>,
                     execute_subcommand(found, child))
    /\ UNCHANGED <<regVars, sourceVars, utilVars, ug, meta, cmd, pset, net, tests>>

NextCli ==
    \/ \E command \in Commands : \E verbose \in BOOLEAN : \E docopt \in DocoptResults :
          ParseArgs(command, verbose, docopt)
    \/ ExecuteOk
    \/ \E is_human \in BOOLEAN : ExecuteCraftError(is_human)
    \/ \E child \in ChildExits : ExecuteBench(child)
    \/ ExecuteLocateProject
    \/ ExecuteHelp
    \/ \E found \in BOOLEAN : \E child \in ChildExits : ExecuteSubcommand(found, child)

SpecCli == InitOverride /\ [][NextCli]_vars

\* The failing child process of the run reported an exit code.
ChildWithCode == cli.origin = "child" /\ cli.child[1].kind = "code"

MaxWrites == 3

PipeCap == 1

Streams == {"out", "err"}

\* What the child does: the stream of each byte it writes, in order; it
\* then exits, which closes both pipes.
Programs == UNION {[1..n -> Streams] : n \in 0..MaxWrites}

\* Pipes left in blocking mode.
O_NONBLOCK_Unset == FALSE

\* fcntl(fd, F_SETFL, O_NONBLOCK) on both pipes.
O_NONBLOCK == TRUE

\* The number of `stream` bytes among the first n writes of the program.
RECURSIVE Written(_, _, _)
Written(prog, stream, n) ==
    IF n = 0 THEN 0
    ELSE Written(prog, stream, n - 1) + (IF prog[n] = stream THEN 1 ELSE 0)

\* select reports a pipe when it holds data or its write end is closed.
Readable(r, stream) == r.pipe[stream] > 0 \/ r.closed

\* The child can take a step: write the next byte into a pipe with room, or
\* exit.
ChildCanStep(r) ==
    /\ r.started /\ ~r.closed
    /\ r.next <= Len(r.prog) => r.pipe[r.prog[r.next]] < PipeCap

\* The reader can take a step: select returns when a pipe of its set is
\* readable; read_to_end returns at once on a non-blocking pipe, and on a
\* blocking one only gets on when there is data or end-of-file.
ReaderCanStep(r) ==
    /\ r.started
    /\ CASE r.pc = "select" ->
               \/ ~r.out_done /\ Readable(r, "out")
               \/ ~r.err_done /\ Readable(r, "err")
         [] r.pc = "read_out" -> r.out_done \/ O_NONBLOCK \/ Readable(r, "out")
         [] r.pc = "read_err" -> r.err_done \/ O_NONBLOCK \/ Readable(r, "err")
         [] OTHER -> FALSE

\* Command::spawn: the child starts with program prog.
Spawn(prog) ==
    /\ ~rd.started
    /\ rd' = [rd EXCEPT !.started = TRUE, !.prog = prog]
    /\ UNCHANGED <<regVars, sourceVars, buildVars, srcid, pspec, newp, rq, lk>>

\* The child writes its next byte, or exits.
ChildStep ==
    /\ ChildCanStep(rd)
    /\ rd' = IF rd.next <= Len(rd.prog)
             THEN [rd EXCEPT !.pipe[rd.prog[rd.next]] = @ + 1, !.next = @ + 1]
             ELSE [rd EXCEPT !.closed = TRUE]
    /\ UNCHANGED <<regVars, sourceVars, buildVars, srcid, pspec, newp, rq, lk>>

\* libc::select over the pipes that are not done.
Select ==
    /\ rd.pc = "select" /\ ReaderCanStep(rd)
    /\ rd' = [rd EXCEPT !.pc = "read_out"]
    /\ UNCHANGED <<regVars, sourceVars, buildVars, srcid, pspec, newp, rq, lk>>

\* read_to_end on one pipe and the call of `data`: the bytes in the pipe are
\* taken and handed over; the pipe is done when end-of-file was seen.  On a
\* blocking pipe read_to_end only returns at end-of-file.
ReadPipe(stream) ==
    /\ rd.pc = (IF stream = "out" THEN "read_out" ELSE "read_err")
    /\ ReaderCanStep(rd)
    /\ LET done == IF stream = "out" THEN rd.out_done ELSE rd.err_done
           eof == ~done /\ rd.closed
           stay == ~done /\ ~O_NONBLOCK /\ ~rd.closed
           r1 == IF done THEN rd
                 ELSE [rd EXCEPT !.got[stream] = @ + rd.pipe[stream],
                                 !.pipe[stream] = 0]
           r2 == IF stream = "out" THEN [r1 EXCEPT !.out_done = @ \/ eof]
                 ELSE [r1 EXCEPT !.err_done = @ \/ eof]
       IN rd' = [r2 EXCEPT !.pc = IF stay THEN @
                                  ELSE IF stream = "out" THEN "read_err"
                                  ELSE IF r2.out_done /\ r2.err_done THEN "done"
                                  ELSE "select"]
    /\ UNCHANGED <<regVars, sourceVars, buildVars, srcid, pspec, newp, rq, lk>>

NextRead2 ==
    \/ \E prog \in Programs : Spawn(prog)
    \/ ChildStep
    \/ Select
    \/ \E stream \in Streams : ReadPipe(stream)

SpecRead2 == InitOverride /\ [][NextRead2]_vars

\* C21: while read2 has not returned, the reader or the child can take a
\* step: the reader never waits on one pipe while the child waits for room
\* in the other; and read2 returns only after the end-of-file of both pipes,
\* with every byte the child wrote to each stream handed to the callback.
C21_ParallelDrain ==
    /\ (rd.started /\ rd.pc # "done") => (ReaderCanStep(rd) \/ ChildCanStep(rd))
    /\ rd.pc = "done" =>
          /\ rd.closed /\ rd.out_done /\ rd.err_done
          /\ \A stream \in Streams :
                /\ rd.pipe[stream] = 0
                /\ rd.got[stream] = Written(rd.prog, stream, Len(rd.prog))

\* read2 has returned for a child that wrote more to stderr than the pipe
\* holds before it wrote to stdout.
C21_Witness ==
    /\ rd.pc = "done"
    /\ rd.prog = <<"err", "err", "out">>
    /\ rd.got = [out |-> 1, err |-> 2]

(***************************************************************************)
(* SourceId: rendering, parsing, equality and order (source.rs:66-382).    *)
(***************************************************************************)

\* Urls in ascending order of Url::cmp; the second names the repository of
\* the first with a `.git` suffix.
UrlList == <<"https://host/repo", "https://host/repo.git", "https://host/zlib">>

\* git::canonicalize_url: the `.git` suffix is dropped.
canonicalize_url(url) == IF url = "https://host/repo.git" THEN "https://host/repo" ELSE url

\* enum Kind and enum GitReference in the order of their variants, which
\* is the order #[derive(Ord)] gives them.
KindList == <<"git", "path", "registry", "local-registry", "directory">>

RefList == <<"Tag", "Branch", "Rev">>

RefNames == <<"dev", "master">>

\* The position of x in the list s.
IndexOf(s, x) == CHOOSE i \in 1..Len(s) : s[i] = x

\* Ordering of two positions.
CmpNat(a, b) == IF a < b THEN "Less" ELSE IF a > b THEN "Greater" ELSE "Equal"

NoRef == [type |-> "none", name |-> "none"]

GitReferences == [type : {RefList[i] : i \in 1..Len(RefList)},
                  name : {RefNames[i] : i \in 1..Len(RefNames)}]

\* Every SourceIdInner: the reference is that of Kind::Git, precise is <<>>
\* or <<string>>.
AllSourceIds ==
    {x \in [kind : {KindList[i] : i \in 1..Len(KindList)},
            url : {UrlList[i] : i \in 1..Len(UrlList)},
            reference : GitReferences \cup {NoRef},
            precise : {<<>>, <<"locked">>, <<"80e71a30">>}] :
        /\ (x.kind = "git") = (x.reference # NoRef)
        /\ x.precise = <<"locked">> => x.kind = "registry"
        /\ x.precise = <<"80e71a30">> => x.kind = "git"}

\* GitReference::to_ref_string and url_ref: the query of the rendered url,
\* <<>> for the branch master.
url_ref(reference) ==
    IF reference.type = "Branch"
    THEN IF reference.name = "master" THEN <<>> ELSE <<"branch", reference.name>>
    ELSE IF reference.type = "Tag" THEN <<"tag", reference.name>>
    ELSE <<"rev", reference.name>>

\* SourceId::to_url.  The string is written as its parts: the text before
\* the first `+`, and the url with its query pair and fragment.
to_url(id) ==
    IF id.kind = "git"
    THEN [scheme |-> "git", url |-> id.url, query |-> url_ref(id.reference),
          fragment |-> id.precise]
    ELSE [scheme |-> id.kind, url |-> id.url, query |-> <<>>, fragment |-> <<>>]

\* SourceId::from_url: [ok, id].
from_url(string) ==
    IF string.scheme = "git"
    THEN [ok |-> TRUE,
          id |-> [kind |-> "git", url |-> string.url,
                  reference |->
                      IF string.query = <<>> THEN [type |-> "Branch", name |-> "master"]
                      ELSE IF string.query[1] \in {"branch", "ref"}
                      THEN [type |-> "Branch", name |-> string.query[2]]
                      ELSE IF string.query[1] = "rev"
                      THEN [type |-> "Rev", name |-> string.query[2]]
                      ELSE IF string.query[1] = "tag"
                      THEN [type |-> "Tag", name |-> string.query[2]]
                      ELSE [type |-> "Branch", name |-> "master"],
                  precise |-> string.fragment]]
    ELSE IF string.scheme = "registry"
    THEN [ok |-> TRUE,
          id |-> [kind |-> "registry", url |-> string.url, reference |-> NoRef,
                  precise |-> <<"locked">>]]
    ELSE IF string.scheme = "path"
    THEN [ok |-> TRUE,
          id |-> [kind |-> "path", url |-> string.url, reference |-> NoRef,
                  precise |-> <<>>]]
    ELSE [ok |-> FALSE, id |-> <<>>]

\* PartialEq for SourceIdInner.
source_eq(a, b) ==
    IF a.kind # b.kind \/ a.reference # b.reference THEN FALSE
    ELSE IF a.url = b.url THEN TRUE
    ELSE a.kind = "git" /\ canonicalize_url(a.url) = canonicalize_url(b.url)

\* Ord for GitReference, derived: the variant, then the string.
ref_cmp(r1, r2) ==
    IF r1.type # r2.type THEN CmpNat(IndexOf(RefList, r1.type), IndexOf(RefList, r2.type))
    ELSE CmpNat(IndexOf(RefNames, r1.name), IndexOf(RefNames, r2.name))

\* Ord for Kind, derived.
kind_cmp(a, b) ==
    IF a.kind # b.kind THEN CmpNat(IndexOf(KindList, a.kind), IndexOf(KindList, b.kind))
    ELSE IF a.kind = "git" THEN ref_cmp(a.reference, b.reference)
    ELSE "Equal"

\* Ord for SourceIdInner.
source_cmp(a, b) ==
    IF kind_cmp(a, b) # "Equal" THEN kind_cmp(a, b)
    ELSE IF a.url # b.url THEN CmpNat(IndexOf(UrlList, a.url), IndexOf(UrlList, b.url))
    ELSE IF a.kind = "git"
    THEN IF ref_cmp(a.reference, b.reference) # "Equal"
         THEN ref_cmp(a.reference, b.reference)
         ELSE CmpNat(IndexOf(UrlList, canonicalize_url(a.url)),
                     IndexOf(UrlList, canonicalize_url(b.url)))
    ELSE kind_cmp(a, b)

\* An id is rendered and the text is parsed.
RoundTrip(id) ==
    /\ srcid.last = <<>>
    /\ srcid' = [last |-> <<[op |-> "from_url", a |-> id, b |-> id,
                            string |-> <<to_url(id)>>,
                            parsed |-> from_url(to_url(id)),
                            eq |-> FALSE, ord |-> "Equal"]>>]
    /\ UNCHANGED <<regVars, sourceVars, buildVars, rd, pspec, newp, rq, lk>>

\* Two ids are compared with == and with cmp.
Compare(a, b) ==
    /\ srcid.last = <<>>
    /\ srcid' = [last |-> <<[op |-> "cmp", a |-> a, b |-> b, string |-> <<>>,
                            parsed |-> [ok |-> FALSE, id |-> <<>>],
                            eq |-> source_eq(a, b), ord |-> source_cmp(a, b)]>>]
    /\ UNCHANGED <<regVars, sourceVars, buildVars, rd, pspec, newp, rq, lk>>

NextSourceId ==
    \/ \E id \in AllSourceIds : RoundTrip(id)
    \/ \E a \in AllSourceIds : \E b \in AllSourceIds : Compare(a, b)

SpecSourceId == InitOverride /\ [][NextSourceId]_vars

\* C22: the rendering of every source id parses, to an id equal to it.
C22_RoundTrip ==
    (srcid.last # <<>> /\ srcid.last[1].op = "from_url") =>
        /\ srcid.last[1].parsed.ok
        /\ source_eq(srcid.last[1].parsed.id, srcid.last[1].a)

\* C25: cmp of two source ids is Equal exactly when they are equal.
C25_OrdAgreesWithEq ==
    (srcid.last # <<>> /\ srcid.last[1].op = "cmp") =>
        ((srcid.last[1].ord = "Equal") <=> srcid.last[1].eq)

(***************************************************************************)
(* PackageIdSpec: Display and parse (package_id_spec.rs:11-211).  A string *)
(* is the sequence of its tokens: the separators `:` `/` `#` `?` and the   *)
(* words between them.                                                     *)
(***************************************************************************)

Separators == {":", "/", "#", "?"}

\* Package names; every character of each is alphanumeric, `_` or `-`.
PkgNames == {"foo", "repo", "2048"}

PkgVersions == {"1.0.0"}

\* The words that appear in the strings.
Words == PkgNames \cup PkgVersions \cup {"http", "craft", "host", "dir", ""}

\* char::is_alphabetic of the first character of a word.
is_alphabetic(word) == word \in {"foo", "repo", "http", "craft", "host", "dir"}

\* The check of parse on the characters of a name: the words other than
\* versions consist of valid characters, a separator is not one.
valid_name(tokens) ==
    \A i \in 1..Len(tokens) : tokens[i] \notin Separators \cup PkgVersions

\* Version::parse and ToSemver::to_semver of a string.
to_semver(tokens) == Len(tokens) = 1 /\ tokens[1] \in PkgVersions

\* The first position of token x in t, 0 when there is none.
Pos(t, x) ==
    IF \E i \in 1..Len(t) : t[i] = x
    THEN CHOOSE i \in 1..Len(t) : t[i] = x /\ \A j \in 1..(i - 1) : t[j] # x
    ELSE 0

\* The word a token sequence spells when it has no separator.
Word(tokens) == IF tokens = <<>> THEN "" ELSE tokens[1]

PkgUrls ==
    [scheme : {"http", "craft"}, host : {"host"},
     path : {<<"repo">>, <<"dir", "foo">>, <<"">>}]

PackageIdSpecs ==
    [name : PkgNames,
     version : {<<>>} \cup {<<v>> : v \in PkgVersions},
     url : {<<>>} \cup {<<u>> : u \in PkgUrls}]

NoSpec == [name |-> "", version |-> <<>>, url |-> <<>>]

RECURSIVE PathTokens(_)
\* Url::path: a `/` before every segment.
PathTokens(path) ==
    IF path = <<>> THEN <<>>
    ELSE (IF Head(path) = "" THEN <<"/">> ELSE <<"/", Head(path)>>) \o PathTokens(Tail(path))

\* Display for PackageIdSpec.
Display(spec) ==
    LET url == spec.url[1]
        printed_url ==
            IF spec.url = <<>> THEN <<>>
            ELSE IF url.scheme = "craft" THEN <<url.host>> \o PathTokens(url.path)
            ELSE <<url.scheme, ":", "/", "/", url.host>> \o PathTokens(url.path)
        printed_name ==
            IF spec.url = <<>> THEN TRUE
            ELSE url.path[Len(url.path)] # spec.name
        name == IF spec.url = <<>> THEN <<spec.name>>
                ELSE IF printed_name THEN <<"#", spec.name>> ELSE <<>>
        version == IF spec.version = <<>> THEN <<>>
                   ELSE <<IF printed_name THEN ":" ELSE "#", spec.version[1]>>
    IN printed_url \o name \o version

RECURSIVE Segments(_)
\* Url::path_segments of the tokens of a path.
Segments(tokens) ==
    IF tokens = <<>> THEN <<>>
    ELSE IF Len(tokens) >= 2 /\ tokens[2] # "/"
    THEN <<tokens[2]>> \o Segments(SubSeq(tokens, 3, Len(tokens)))
    ELSE <<"">> \o Segments(Tail(tokens))

RECURSIVE PathOk(_)
\* The tokens are a path: every word follows a `/`.
PathOk(tokens) ==
    IF tokens = <<>> THEN TRUE
    ELSE /\ Head(tokens) = "/"
         /\ IF Len(tokens) >= 2 /\ tokens[2] # "/"
            THEN tokens[2] \notin Separators /\ PathOk(SubSeq(tokens, 3, Len(tokens)))
            ELSE PathOk(Tail(tokens))

\* Url::parse of scheme://rest, where rest is host, an optional empty
\* port, path, query and fragment.  An http url without a path has the
\* path `/`; a craft url without one has no path segments.
UrlOfRest(scheme, rest) ==
    LET host == IF rest = <<>> THEN "" ELSE rest[1]
        from == IF Len(rest) >= 2 /\ rest[2] = ":" THEN 3 ELSE 2
        tail == SubSeq(rest, from, Len(rest))
        h == Pos(tail, "#")
        before == IF h = 0 THEN tail ELSE SubSeq(tail, 1, h - 1)
        q == Pos(before, "?")
        path == IF q = 0 THEN before ELSE SubSeq(before, 1, q - 1)
    IN [ok |-> /\ rest # <<>> /\ host \notin Separators /\ host # ""
               /\ PathOk(path),
        url |-> [scheme |-> scheme, host |-> host,
                 path |-> IF path = <<>> /\ scheme = "http" THEN <<"">>
                          ELSE Segments(path)],
        query |-> q # 0,
        fragment |-> IF h = 0 THEN <<>> ELSE <<SubSeq(tail, h + 1, Len(tail))>>]

\* str::to_url, Url::parse of the whole string.
str_to_url(t) ==
    IF /\ Len(t) >= 4 /\ is_alphabetic(t[1])
       /\ t[2] = ":" /\ t[3] = "/" /\ t[4] = "/"
    THEN UrlOfRest(t[1], SubSeq(t, 5, Len(t)))
    ELSE [ok |-> FALSE, url |-> [scheme |-> "", host |-> "", path |-> <<>>],
          query |-> FALSE, fragment |-> <<>>]

\* str::contains("://").
contains_scheme_sep(t) ==
    \E i \in 1..(Len(t) - 2) : t[i] = ":" /\ t[i + 1] = "/" /\ t[i + 2] = "/"

Parsed(outcome, spec) == [outcome |-> outcome, spec |-> spec]

\* PackageIdSpec::from_url.
pkgid_from_url(u) ==
    IF u.query THEN Parsed("err", NoSpec)
    ELSE IF u.url.path = <<>> THEN Parsed("err", NoSpec)
    ELSE
      LET path_name == u.url.path[Len(u.url.path)]
          fragment == u.fragment[1]
          c == Pos(fragment, ":")
          name_or_version == IF c = 0 THEN fragment ELSE SubSeq(fragment, 1, c - 1)
          part == SubSeq(fragment, c + 1, Len(fragment))
      IN IF u.fragment = <<>>
         THEN Parsed("ok", [name |-> path_name, version |-> <<>>, url |-> <<u.url>>])
         ELSE IF c # 0
         THEN IF to_semver(part)
              THEN Parsed("ok", [name |-> Word(name_or_version),
                                 version |-> <<part[1]>>, url |-> <<u.url>>])
              ELSE Parsed("err", NoSpec)
         ELSE IF name_or_version = <<>> \/ Word(name_or_version) = ""
         THEN \* chars().next().unwrap() of the empty string
              Parsed("panic", NoSpec)
         ELSE IF is_alphabetic(name_or_version[1])
         THEN Parsed("ok", [name |-> Word(name_or_version), version |-> <<>>,
                            url |-> <<u.url>>])
         ELSE IF to_semver(name_or_version)
         THEN Parsed("ok", [name |-> path_name, version |-> <<name_or_version[1]>>,
                            url |-> <<u.url>>])
         ELSE Parsed("err", NoSpec)

\* The part of parse after the url forms: name and name:version.
pkgid_plain(t) ==
    LET c == Pos(t, ":")
        name == IF c = 0 THEN t ELSE SubSeq(t, 1, c - 1)
        version == SubSeq(t, c + 1, Len(t))
    IN IF c # 0 /\ ~to_semver(version) THEN Parsed("err", NoSpec)
       ELSE IF ~valid_name(name) THEN Parsed("err", NoSpec)
       ELSE Parsed("ok", [name |-> Word(name),
                          version |-> IF c = 0 THEN <<>> ELSE <<version[1]>>,
                          url |-> <<>>])

\* PackageIdSpec::parse.
pkgid_parse(t) ==
    IF Pos(t, "/") # 0
    THEN IF str_to_url(t).ok THEN pkgid_from_url(str_to_url(t))
         ELSE IF ~contains_scheme_sep(t) /\ UrlOfRest("craft", t).ok
         THEN pkgid_from_url(UrlOfRest("craft", t))
         ELSE pkgid_plain(t)
    ELSE pkgid_plain(t)

\* The input strings: what Display writes, and every beginning of it.
PkgidInputs ==
    UNION {{SubSeq(Display(spec), 1, n) : n \in 0..Len(Display(spec))} :
               spec \in PackageIdSpecs}

\* A spec is written and the text is parsed.
DisplayParse(spec) ==
    /\ pspec.last = <<>>
    /\ pspec' = [last |-> <<[op |-> "display", spec |-> spec, text |-> Display(spec),
                            result |-> pkgid_parse(Display(spec))]>>]
    /\ UNCHANGED <<regVars, sourceVars, buildVars, rd, srcid, newp, rq, lk>>

\* A string is parsed.
ParseInput(text) ==
    /\ pspec.last = <<>>
    /\ pspec' = [last |-> <<[op |-> "parse", spec |-> NoSpec, text |-> text,
                            result |-> pkgid_parse(text)]>>]
    /\ UNCHANGED <<regVars, sourceVars, buildVars, rd, srcid, newp, rq, lk>>

NextPackageIdSpec ==
    \/ \E spec \in PackageIdSpecs : DisplayParse(spec)
    \/ \E text \in PkgidInputs : ParseInput(text)

SpecPackageIdSpec == InitOverride /\ [][NextPackageIdSpec]_vars

\* C23: parse of what Display writes for a spec succeeds with that spec.
C23_DisplayParse ==
    (pspec.last # <<>> /\ pspec.last[1].op = "display") =>
        /\ pspec.last[1].result.outcome = "ok"
        /\ pspec.last[1].result.spec = pspec.last[1].spec

\* C29: parse returns a spec or an error for every string, it never panics.
C29_ParseTotal ==
    (pspec.last # <<>> /\ pspec.last[1].op = "parse") =>
        pspec.last[1].result.outcome \in {"ok", "err"}

(***************************************************************************)
(* craft new: the choice of version control (ops/craft_new.rs:239-369,     *)
(* 493-516).                                                               *)
(***************************************************************************)

\* enum VersionControl.
VersionControl == {"Git", "Hg", "NoVcs"}

\* The values of craft-new.vcs in the configuration; "svn" is one that
\* global_config does not know.
VcsConfigValues == {"git", "hg", "none", "svn"}

\* The repository the new directory lies in: none, git or hg.
ExistingRepos == {"none", "git", "hg"}

\* global_config: the decoded craft-new.vcs, [ok, version_control].
global_config(value) ==
    IF value = <<>> THEN [ok |-> TRUE, version_control |-> <<>>]
    ELSE IF value[1] = "git" THEN [ok |-> TRUE, version_control |-> <<"Git">>]
    ELSE IF value[1] = "hg" THEN [ok |-> TRUE, version_control |-> <<"Hg">>]
    ELSE IF value[1] = "none" THEN [ok |-> TRUE, version_control |-> <<"NoVcs">>]
    ELSE [ok |-> FALSE, version_control |-> <<>>]

\* existing_vcs_repo.
existing_vcs_repo(existing) == existing \in {"git", "hg"}

\* The match of mk with the repository looked at first.
mk_vcs_RepoFirst(opt, configured, in_existing_vcs_repo) ==
    IF in_existing_vcs_repo THEN "NoVcs"
    ELSE IF opt # <<>> THEN opt[1]
    ELSE IF configured # <<>> THEN configured[1]
    ELSE "Git"

\* The match of mk on (opts.version_control, cfg.version_control,
\* in_existing_vcs_repo), arm by arm.
mk_vcs(opt, configured, in_existing_vcs_repo) ==
    IF opt = <<>> /\ configured = <<>> /\ ~in_existing_vcs_repo THEN "Git"
    ELSE IF opt = <<>> /\ configured # <<>> /\ ~in_existing_vcs_repo THEN configured[1]
    ELSE IF opt # <<>> THEN opt[1]
    ELSE "NoVcs"

\* What mk creates in the new directory for the chosen version control.
mk_files(vcs) ==
    IF vcs = "Git" THEN {".git", ".gitignore"}
    ELSE IF vcs = "Hg" THEN {".hg", ".hgignore"}
    ELSE {}

\* The lines of the ignore file.
mk_ignore(bin) == IF bin THEN <<"target">> ELSE <<"target", "Craft.lock">>

\* craft new with the flag --vcs (or without), --bin (or without), a
\* configuration and a place for the directory.
New(opt, value, existing, bin) ==
    /\ newp.last = <<>>
    /\ newp' = [last |->
          <<IF global_config(value).ok
            THEN LET vcs == mk_vcs(opt, global_config(value).version_control,
                                   existing_vcs_repo(existing))
                 IN [opt |-> opt, value |-> value, existing |-> existing, bin |-> bin,
                     ok |-> TRUE, vcs |-> vcs, files |-> mk_files(vcs),
                     ignore |-> IF vcs = "NoVcs" THEN <<>> ELSE mk_ignore(bin)]
            ELSE [opt |-> opt, value |-> value, existing |-> existing, bin |-> bin,
                  ok |-> FALSE, vcs |-> "NoVcs", files |-> {}, ignore |-> <<>>]>>]
    /\ UNCHANGED <<regVars, sourceVars, buildVars, rd, srcid, pspec, rq, lk>>

NextNew ==
    \E opt \in {<<>>} \cup {<<v>> : v \in VersionControl} :
      \E value \in {<<>>} \cup {<<v>> : v \in VcsConfigValues} :
        \E existing \in ExistingRepos : \E bin \in BOOLEAN :
          New(opt, value, existing, bin)

SpecNew == InitOverride /\ [][NextNew]_vars

\* The repository and ignore file of a version control.
HasRepo(files, vcs) ==
    IF vcs = "Git" THEN files = {".git", ".gitignore"}
    ELSE IF vcs = "Hg" THEN files = {".hg", ".hgignore"}
    ELSE files = {}

\* C24: a project that craft new creates has the version control of --vcs
\* when the flag is given; without the flag it has no repository and no
\* ignore file inside an existing git or hg repository, and elsewhere that
\* of craft-new.vcs, git when that is not set.
C24_VcsChoice ==
    (newp.last # <<>> /\ newp.last[1].ok) =>
        LET r == newp.last[1] IN
        /\ r.opt # <<>> => HasRepo(r.files, r.opt[1])
        /\ (r.opt = <<>> /\ r.existing # "none") => r.files = {}
        /\ (r.opt = <<>> /\ r.existing = "none" /\ r.value = <<>>) =>
               HasRepo(r.files, "Git")
        /\ (r.opt = <<>> /\ r.existing = "none" /\ r.value # <<>>) =>
               HasRepo(r.files, CASE r.value[1] = "git" -> "Git"
                                  [] r.value[1] = "hg" -> "Hg"
                                  [] r.value[1] = "none" -> "NoVcs")

C24_Witness ==
    /\ newp.last # <<>> /\ newp.last[1].ok
    /\ newp.last[1].opt = <<"Git">> /\ newp.last[1].value = <<"none">>
    /\ newp.last[1].existing = "hg" /\ ".gitignore" \in newp.last[1].files

(***************************************************************************)
(* RegistrySource::query and its lazy update (registry/mod.rs:252-320).    *)
(***************************************************************************)

MaxQueries == 3

\* The versions of one package a dependency may ask for.
IndexVersions == {1, 2}

\* RegistryIndex::query: the summaries of the index that match.
index_query(index, version) == index \cap {version}

\* The registry publishes a version.
RqPublish(version) ==
    /\ version \notin rq.remote
    /\ rq' = [rq EXCEPT !.remote = @ \cup {version}]
    /\ UNCHANGED <<regVars, sourceVars, buildVars, rd, srcid, pspec, newp, lk>>

\* RegistrySource::query of a dependency on `version` whose source id has
\* (or has not) a precise; ok is the outcome of ops.update_index.  do_update
\* replaces the index and leaves `updated` as it is.
RqQuery(version, is_precise, ok) ==
    /\ rq.queries < MaxQueries
    /\ LET lazy == is_precise /\ ~rq.updated /\ index_query(rq.index, version) = {}
           index == IF lazy /\ ok THEN rq.remote ELSE rq.index
       IN rq' = [rq EXCEPT
                   !.index = index,
                   !.queries = @ + 1,
                   !.lazy = IF lazy THEN @ + 1 ELSE @,
                   !.last = <<[version |-> version, precise |-> is_precise,
                               lazy |-> lazy,
                               ret |-> IF lazy /\ ~ok THEN <<>>
                                       ELSE <<index_query(index, version)>>]>>]
    /\ UNCHANGED <<regVars, sourceVars, buildVars, rd, srcid, pspec, newp, lk>>

NextRegistryQuery ==
    \/ \E version \in IndexVersions : RqPublish(version)
    \/ \E version \in IndexVersions : \E is_precise \in BOOLEAN : \E ok \in BOOLEAN :
          RqQuery(version, is_precise, ok)

SpecRegistryQuery == InitOverride /\ [][NextRegistryQuery]_vars

\* C26: one source object starts its lazy index update at most once.
C26_LazyUpdateOnce == rq.lazy <= 1

(***************************************************************************)
(* supports_checksums of a ReplacedSource (replaced.rs:21-31,              *)
(* registry.rs:14-25).                                                     *)
(***************************************************************************)

\* Registry::supports_checksums, the provided method of the trait.
Registry_supports_checksums == FALSE

\* `impl Registry for ReplacedSource` defines query alone, so the source
\* answers with the provided method whatever `inner` is.
ReplacedSource_supports_checksums(RS) == Registry_supports_checksums

\* C28: a ReplacedSource that load may build, one whose two sources agree on
\* supports_checksums, reports the value of the source it wraps.
C28_SameChecksums ==
    supports_checksums(repl.replace_with) = supports_checksums(repl.to_replace) =>
        ReplacedSource_supports_checksums(repl) = supports_checksums(repl.replace_with)

(***************************************************************************)
(* LibKind and its crate-type strings (manifest.rs:62-98).                 *)
(***************************************************************************)

\* The longest crate-type list of a library target.
MaxKinds == 3

LibKind(tag, string) == [tag |-> tag, string |-> string]

\* LibKind::from_str.
LibKind_from_str(string) ==
    IF string = "lib" THEN LibKind("Lib", "")
    ELSE IF string = "rlib" THEN LibKind("Rlib", "")
    ELSE IF string = "dylib" THEN LibKind("Dylib", "")
    ELSE IF string = "procc-macro" THEN LibKind("ProcMacro", "")
    ELSE LibKind("Other", string)

\* LibKind::crate_type.
crate_type(kind) ==
    IF kind.tag = "Lib" THEN "lib"
    ELSE IF kind.tag = "Rlib" THEN "rlib"
    ELSE IF kind.tag = "Dylib" THEN "dylib"
    ELSE IF kind.tag = "ProcMacro" THEN "proc-macro"
    ELSE kind.string

\* The values of enum LibKind: the four named kinds and Other of the
\* strings from_str keeps as they are.
LibKinds ==
    {LibKind(tag, "") : tag \in {"Lib", "Rlib", "Dylib", "ProcMacro"}}
        \cup {LibKind("Other", string) : string \in {"staticlib", "cdylib"}}

KindLists == UNION {[1..n -> LibKinds] : n \in 1..MaxKinds}

\* The kinds of a library target are written as crate types and the strings
\* are read back.
CrateTypes(kinds) ==
    /\ lk.last = <<>>
    /\ lk' = [last |-> <<[kinds |-> kinds,
                         strings |-> [i \in 1..Len(kinds) |-> crate_type(kinds[i])],
                         parsed |-> [i \in 1..Len(kinds) |->
                                        LibKind_from_str(crate_type(kinds[i]))]]>>]
    /\ UNCHANGED <<regVars, sourceVars, buildVars, rd, srcid, pspec, newp, rq>>

NextLibKind == \E kinds \in KindLists : CrateTypes(kinds)

SpecLibKind == InitOverride /\ [][NextLibKind]_vars

\* C30: the crate type of every library kind is read back as that kind.
C30_CrateTypeRoundTrip ==
    lk.last # <<>> =>
        \A i \in 1..Len(lk.last[1].kinds) : lk.last[1].parsed[i] = lk.last[1].kinds[i]

(***************************************************************************)
(* Doc tests within one run_tests (ops/craft_test.rs:14-46, 99-179).       *)
(***************************************************************************)

\* C27: no doc test is started twice within one run_tests.
C27_DocTestOnce ==
    tests.last # <<>> =>
        LET started == tests.last[1].result.started
        IN \A i \in 1..Len(started) : \A j \in 1..Len(started) :
              (started[i] = started[j] /\ started[i][1] = "doc") => i = j

====
